---- MODULE Spec2Model ----
(***************************************************************************)
(* State-machine model of the response-normalisation engine of the 302AI   *)
(* provider.  This part models the stream decoder: the TransformStream     *)
(* built by AI302LanguageModel.doStream (ai302-language-model.ts), its     *)
(* per-call closure state, and the canonical events it enqueues.           *)
(*                                                                         *)
(* Conventions.                                                            *)
(*  - A nullable value (null or undefined in the source; the code treats   *)
(*    both alike through `??`, `?.` and `!= null`) is None == <<>> or      *)
(*    Some(v) == <<v>>.                                                    *)
(*  - A text is a sequence of tokens; '' is <<>>, string `+` is \o, and a  *)
(*    text is truthy iff it is not empty.                                  *)
(*  - The sparse array toolCalls is a function whose domain is the set of  *)
(*    indices that have been assigned; a hole is an index outside it.      *)
(***************************************************************************)
EXTENDS Integers, Sequences, FiniteSets, TLC

\* Longest stream (number of frames before end-of-stream) explored.
MaxFrames == 3

None == <<>>
Some(v) == <<v>>
IsNull(o) == o = <<>>
Get(o) == o[1]
\* a ?? b
OrElse(o, d) == IF IsNull(o) THEN d ELSE o
\* JavaScript truthiness of a nullable text: neither null nor ''.
Truthy(o) == ~IsNull(o) /\ Len(Get(o)) > 0

VARIABLES
    pc,                 \* "streaming" until the transport ends, then "done"
    frames,             \* the frames handed to transform() so far
    events,             \* everything enqueued on the controller, in order
    toolCalls,          \* closure state of doStream ...
    finishReason,
    usage,
    isFirstChunk,
    isActiveReasoning,
    isActiveText,
    genCount            \* number of identifiers generateId() has produced

vars == <<pc, frames, events, toolCalls, finishReason, usage,
          isFirstChunk, isActiveReasoning, isActiveText, genCount>>

\* State of one asynchronous job (submit, poll, fetch), see the section on
\* pollers below.
VARIABLES
    handler,            \* which poller runs the job ("none": no job)
    phase,              \* where the job's code is suspended
    aborted,            \* abortSignal.aborted
    elapsed,            \* Date.now() - startTime, in milliseconds
    attempt,            \* loop variable of pollForResult
    maxAttempts,        \* options.maxAttempts of pollForResult
    statusRequests,     \* status requests issued so far
    sleeps,             \* interval sleeps begun so far
    lastResponse,       \* the last settled status request
    outcome,            \* how the job ended ("none" while it runs)
    downloads,          \* the artifact references fetched, in order
    message,            \* the message of the error the job threw (text)
    result,             \* the bytes the job returned
    lastDownload,       \* what the artifact fetch settled to
    submission,         \* what the submission of the speech model settled to
    calls               \* the network calls issued, each with whether it
                        \* was given the abort signal

pvars == <<handler, phase, aborted, elapsed, attempt, maxAttempts,
           statusRequests, sleeps, lastResponse, outcome, downloads,
           message, result, lastDownload, submission, calls>>

\* State of the construction of one request and of the assembly of its
\* result, see the section on warnings below.
VARIABLES
    callKind,           \* "generate", "stream" or "image" ("none": no call)
    options,            \* the call options the warnings depend on
    cpc,                \* where the call's code is
    warnings,           \* const warnings = []
    toolWarnings,       \* const toolWarnings = [] of prepareTools
    toolIndex,          \* position of `for (const tool of tools)`
    pushed,             \* every warning pushed so far, in the order of the pushes
    resultWarnings,     \* `warnings` of the returned result
    enqueued            \* what the stream's controller has enqueued

cvars == <<callKind, options, cpc, warnings, toolWarnings, toolIndex, pushed,
           resultWarnings, enqueued>>

\* State of two calls that run interleaved, see the section on concurrent
\* calls below.
VARIABLES
    mode,               \* "decode": two doStream calls, "poll": two speech
                        \* jobs ("none": neither)
    streams,            \* per call: the frames fed, the variables its
                        \* transform stream closes over, the events enqueued
    jobs                \* per call: the state of its pollForResult and the
                        \* inputs it has had

dvars == <<mode, streams, jobs>>

VARIABLES
    requested,          \* the option n of the Midjourney call (None: not given)
    abortSignal,        \* abortSignal.aborted of the Midjourney call
    initialResult,      \* the imagine task: its submission and its pollTask
    buttons,            \* the indices i with a button `U${i}` in the result of
                        \* the imagine task
    upscalePromises,    \* per index: the upscaleImage call, its submission and
                        \* its pollTask (<<>>: Array.from has not run)
    processRequest,     \* where processRequest stands: "idle", "imagine",
                        \* "upscale", "download", "returned", "thrown"
    thrown,             \* why processRequest threw ("none": it has not)
    imageUrls           \* the argument of downloadImages (<<>>: not called)

mvars == <<requested, abortSignal, initialResult, buttons, upscalePromises,
           processRequest, thrown, imageUrls>>

\* A task that does not exist yet, or belongs to no call.
NoTask ==
    [phase |-> "idle", elapsed |-> 0, statusRequests |-> 0, outcome |-> "none",
     imageUrl |-> None]

\* No Midjourney call runs.
NoMidjourney ==
    /\ requested = None
    /\ abortSignal = FALSE
    /\ initialResult = NoTask
    /\ buttons = {}
    /\ upscalePromises = <<>>
    /\ processRequest = "idle"
    /\ thrown = "none"
    /\ imageUrls = <<>>

\* No two calls run interleaved.
NoPair ==
    /\ mode = "none"
    /\ streams = <<>>
    /\ jobs = <<>>

\* No request is constructed.
NoCall ==
    /\ callKind = "none"
    /\ options = <<>>
    /\ cpc = "idle"
    /\ warnings = <<>>
    /\ toolWarnings = <<>>
    /\ toolIndex = 0
    /\ pushed = <<>>
    /\ resultWarnings = None
    /\ enqueued = <<>>

----------------------------------------------------------------------------
(* Helpers of ai302-language-model.ts *)

\* mapOpenAIFinishReason without the legacy function_call case.
mapOpenAIFinishReasonNoFunctionCall(finishReasonCode) ==
    CASE finishReasonCode = Some("stop") -> "stop"
      [] finishReasonCode = Some("length") -> "length"
      [] finishReasonCode = Some("content_filter") -> "content-filter"
      [] finishReasonCode = Some("tool_calls") -> "tool-calls"
      [] OTHER -> "unknown"

mapOpenAIFinishReason(finishReasonCode) ==
    CASE finishReasonCode = Some("stop") -> "stop"
      [] finishReasonCode = Some("length") -> "length"
      [] finishReasonCode = Some("content_filter") -> "content-filter"
      [] finishReasonCode = Some("function_call") -> "tool-calls"
      [] finishReasonCode = Some("tool_calls") -> "tool-calls"
      [] OTHER -> "unknown"

\* created is in seconds, the timestamp in milliseconds.
getResponseMetadata(value) ==
    [id |-> value.id,
     modelId |-> value.model,
     timestamp |-> IF ~IsNull(value.created)
                   THEN Some(Get(value.created) * 1000) ELSE None]

\* generateId(): the n-th identifier produced by the generator.
generateId(n) == "gen-" \o ToString(n)

----------------------------------------------------------------------------
(* Upstream frames: ParseResult<z.infer<typeof openaiChatChunkSchema>>.    *)
(* The usage details objects are flattened: reasoning_tokens stands for    *)
(* completion_tokens_details?.reasoning_tokens and cached_tokens for       *)
(* prompt_tokens_details?.cached_tokens.                                   *)

Failed == [success |-> FALSE, error |-> "parse-error"]

Ok(value) == [success |-> TRUE, value |-> value]

BaseValue ==
    [id |-> Some("chatcmpl-1"), model |-> Some("gpt-4o"), created |-> Some(1),
     usage |-> None, choices |-> <<>>]

BaseDelta ==
    [reasoning_content |-> None, reasoning |-> None, content |-> None,
     tool_calls |-> None]

BaseUsage ==
    [prompt_tokens |-> None, completion_tokens |-> None, total_tokens |-> None,
     reasoning_tokens |-> None, cached_tokens |-> None]

Choice(code, delta) == [finish_reason |-> code, delta |-> delta]

WithDelta(delta) == Ok([BaseValue EXCEPT !.choices = <<Choice(None, Some(delta))>>])

WithUsage(u) == Ok([BaseValue EXCEPT !.usage = Some(u)])

Fragment(index, id, name, arguments) ==
    [index |-> index, id |-> id,
     function |-> [name |-> name, arguments |-> arguments]]

WithToolCalls(frags) == WithDelta([BaseDelta EXCEPT !.tool_calls = Some(frags)])

UsageFrames ==
    { WithUsage([BaseUsage EXCEPT !.prompt_tokens = Some(10)]),
      WithUsage([BaseUsage EXCEPT !.completion_tokens = Some(5),
                                  !.reasoning_tokens = Some(2)]),
      WithUsage([prompt_tokens |-> Some(7), completion_tokens |-> Some(3),
                 total_tokens |-> Some(10), reasoning_tokens |-> None,
                 cached_tokens |-> Some(1)]) }

FinishCodes == {"length", "content_filter", "tool_calls", "function_call", "eos"}

FinishFrames ==
    { Ok([BaseValue EXCEPT !.choices = <<Choice(Some(c), None)>>]) : c \in FinishCodes }

ReasoningFrames ==
    { WithDelta([BaseDelta EXCEPT !.reasoning = Some(<<"Let">>)]),
      WithDelta([BaseDelta EXCEPT !.reasoning = Some(<<" me think">>)]),
      WithDelta([BaseDelta EXCEPT !.reasoning_content = Some(<<>>),
                                  !.reasoning = Some(<<"Let">>)]),
      WithDelta([BaseDelta EXCEPT !.reasoning_content = Some(<<"rc">>),
                                  !.reasoning = Some(<<"r">>)]) }

TextFrames ==
    { WithDelta([BaseDelta EXCEPT !.content = Some(<<"Hello">>)]),
      WithDelta([BaseDelta EXCEPT !.content = Some(<<>>)]) }

\* {content: '42', finish_reason: 'stop', usage: {...}}
FinalFrame ==
    Ok([BaseValue EXCEPT
          !.usage = Some([BaseUsage EXCEPT !.prompt_tokens = Some(10),
                                           !.completion_tokens = Some(20),
                                           !.total_tokens = Some(30)]),
          !.choices = <<Choice(Some("stop"),
                               Some([BaseDelta EXCEPT !.content = Some(<<"42">>)]))>>])

ToolFrames ==
    { WithToolCalls(<<Fragment(0, Some("call_0"), Some(<<"get_weather">>), Some(<<>>))>>),
      WithToolCalls(<<Fragment(0, None, None, Some(<<"a">>))>>),
      WithToolCalls(<<Fragment(0, Some("call_X"), Some(<<"other">>), Some(<<"b">>))>>),
      WithToolCalls(<<Fragment(1, None, None, Some(<<"a">>))>>),
      WithToolCalls(<<Fragment(1, Some("call_1"), Some(<<"f">>), None),
                      Fragment(0, None, None, Some(<<"b">>))>>) }

\* A frame that carries reasoning text, text content and the first fragment
\* of the tool call at position 2 at once.
MixedFrame ==
    WithDelta([reasoning_content |-> Some(<<"think">>), reasoning |-> None,
               content |-> Some(<<"Hi">>),
               tool_calls |-> Some(<<Fragment(2, Some("call_2"), Some(<<"g">>),
                                              Some(<<"c">>))>>)])

\* A frame of two choices: the first has neither delta nor finish_reason,
\* the second has both.
TwoChoiceFrame ==
    Ok([BaseValue EXCEPT
          !.choices = <<Choice(None, None),
                        Choice(Some("stop"),
                               Some([BaseDelta EXCEPT !.content = Some(<<"second">>)]))>>])

Frames ==
    {Failed, Ok(BaseValue), FinalFrame, MixedFrame, TwoChoiceFrame}
        \cup UsageFrames \cup FinishFrames \cup ReasoningFrames
        \cup TextFrames \cup ToolFrames

----------------------------------------------------------------------------
(* doStream: state after the TransformStream has been constructed; its     *)
(* start() callback has enqueued stream-start.  The warnings that event    *)
(* carries come from getArgs and are not part of the decoder's state.      *)

\* let finishReason = 'unknown'; const usage = {...}; let isFirstChunk = true; ...
InitialState ==
    [toolCalls |-> <<>>,
     finishReason |-> "unknown",
     usage |-> [promptTokens |-> None, completionTokens |-> None,
                totalTokens |-> None, reasoningTokens |-> None,
                cachedTokens |-> None],
     isFirstChunk |-> TRUE,
     isActiveReasoning |-> FALSE,
     isActiveText |-> FALSE,
     genCount |-> 0,
     out |-> <<>>]

\* No asynchronous job is running while a stream is decoded.
NoJob ==
    /\ handler = "none"
    /\ phase = "idle"
    /\ aborted = FALSE
    /\ elapsed = 0
    /\ attempt = 0
    /\ maxAttempts = 0
    /\ statusRequests = 0
    /\ sleeps = 0
    /\ lastResponse = [kind |-> "none", code |-> 0, status |-> "", artifact |-> None]
    /\ outcome = "none"
    /\ downloads = <<>>
    /\ message = <<>>
    /\ result = None
    /\ lastDownload = [kind |-> "none", status |-> 0, statusText |-> "", body |-> ""]
    /\ submission = [kind |-> "none", status |-> "", audio_url |-> None]
    /\ calls = {}

Init ==
    /\ pc = "streaming"
    /\ frames = <<>>
    /\ events = <<[type |-> "stream-start"]>>
    /\ toolCalls = InitialState.toolCalls
    /\ finishReason = InitialState.finishReason
    /\ usage = InitialState.usage
    /\ isFirstChunk = InitialState.isFirstChunk
    /\ isActiveReasoning = InitialState.isActiveReasoning
    /\ isActiveText = InitialState.isActiveText
    /\ genCount = InitialState.genCount
    /\ NoJob
    /\ NoCall
    /\ NoPair
    /\ NoMidjourney

----------------------------------------------------------------------------
(* transform(chunk, controller) *)

\* Process usage info: prompt, completion and total are assigned from every
\* usage object (`?? undefined`); reasoning and cached only when reported.
AccumulateUsage(u, value) ==
    IF IsNull(value.usage) THEN u
    ELSE LET vu == Get(value.usage) IN
         [promptTokens |-> vu.prompt_tokens,
          completionTokens |-> vu.completion_tokens,
          totalTokens |-> vu.total_tokens,
          reasoningTokens |-> IF ~IsNull(vu.reasoning_tokens)
                              THEN vu.reasoning_tokens ELSE u.reasoningTokens,
          cachedTokens |-> IF ~IsNull(vu.cached_tokens)
                           THEN vu.cached_tokens ELSE u.cachedTokens]

\* FirstChoice that takes the last choice.
FirstChoiceTakesLast(value) ==
    IF Len(value.choices) > 0 THEN Some(value.choices[Len(value.choices)]) ELSE None

\* const choice = value.choices[0]
FirstChoice(value) ==
    IF Len(value.choices) > 0 THEN Some(value.choices[1]) ELSE None

\* doGenerate: finishReason: mapOpenAIFinishReason(choice.finish_reason)
doGenerateFinishReason(choice) == mapOpenAIFinishReason(choice.finish_reason)

\* NextFinishReason that keeps the first finish reason reported.
NextFinishReasonKeepsFirst(reason, value) ==
    LET choice == FirstChoice(value) IN
    IF reason = "unknown" /\ ~IsNull(choice) /\ ~IsNull(Get(choice).finish_reason)
    THEN mapOpenAIFinishReason(Get(choice).finish_reason)
    ELSE reason

\* NextFinishReason that leaves the reason of a parse failure in place.
NextFinishReasonErrorSticks(reason, value) ==
    LET choice == FirstChoice(value) IN
    IF reason # "error" /\ ~IsNull(choice) /\ ~IsNull(Get(choice).finish_reason)
    THEN mapOpenAIFinishReason(Get(choice).finish_reason)
    ELSE reason

\* Check for finish reason.
NextFinishReason(reason, value) ==
    LET choice == FirstChoice(value) IN
    IF ~IsNull(choice) /\ ~IsNull(Get(choice).finish_reason)
    THEN mapOpenAIFinishReason(Get(choice).finish_reason)
    ELSE reason

\* MetadataOut without the isFirstChunk test.
MetadataOutEveryChunk(first, value) ==
    LET m == getResponseMetadata(value) IN
    <<[type |-> "response-metadata", id |-> m.id, modelId |-> m.modelId,
       timestamp |-> m.timestamp]>>

\* Emit response metadata on first chunk.
MetadataOut(first, value) ==
    IF first
    THEN LET m == getResponseMetadata(value) IN
         <<[type |-> "response-metadata", id |-> m.id, modelId |-> m.modelId,
            timestamp |-> m.timestamp]>>
    ELSE <<>>

\* ReasoningContent with the two fields in the other order of preference.
ReasoningContentPrefersReasoning(delta) ==
    OrElse(delta.reasoning, delta.reasoning_content)

\* ReasoningContent with || in the place of ??: an empty reasoning_content
\* falls back to reasoning.
ReasoningContentSkipsEmpty(delta) ==
    IF Truthy(delta.reasoning_content) THEN delta.reasoning_content
    ELSE delta.reasoning

\* const reasoningContent = delta.reasoning_content ?? delta.reasoning
ReasoningContent(delta) == OrElse(delta.reasoning_content, delta.reasoning)

\* Process reasoning content (before text).
ReasoningOut(active, delta) ==
    IF Truthy(ReasoningContent(delta))
    THEN (IF ~active THEN <<[type |-> "reasoning-start", id |-> "reasoning-0"]>>
          ELSE <<>>)
         \o <<[type |-> "reasoning-delta", id |-> "reasoning-0",
               delta |-> Get(ReasoningContent(delta))]>>
    ELSE <<>>

\* TextOut that ends the reasoning span where the text span starts.
TextOutEndsReasoning(active, delta) ==
    IF Truthy(delta.content)
    THEN (IF ~active THEN <<[type |-> "reasoning-end", id |-> "reasoning-0"],
                            [type |-> "text-start", id |-> "txt-0"]>> ELSE <<>>)
         \o <<[type |-> "text-delta", id |-> "txt-0", delta |-> Get(delta.content)]>>
    ELSE <<>>

\* Process text content.
TextOut(active, delta) ==
    IF Truthy(delta.content)
    THEN (IF ~active THEN <<[type |-> "text-start", id |-> "txt-0"]>> ELSE <<>>)
         \o <<[type |-> "text-delta", id |-> "txt-0", delta |-> Get(delta.content)]>>
    ELSE <<>>

\* toolCalls[index] = rec
Put(tcs, index, rec) ==
    [i \in (DOMAIN tcs) \cup {index} |-> IF i = index THEN rec ELSE tcs[i]]

\* ProcessToolCallDelta with the fragment put in front of the accumulated
\* arguments instead of behind them.
ProcessToolCallDeltaPrepends(st, toolCallDelta) ==
    LET index == toolCallDelta.index IN
    IF index \notin DOMAIN st.toolCalls
    THEN LET fresh == IsNull(toolCallDelta.id)
             toolCallId == IF fresh THEN generateId(st.gen + 1)
                           ELSE Get(toolCallDelta.id)
             toolName == Get(OrElse(toolCallDelta.function.name, Some(<<>>)))
             arguments == Get(OrElse(toolCallDelta.function.arguments, Some(<<>>)))
         IN [toolCalls |-> Put(st.toolCalls, index,
                               [id |-> toolCallId, type |-> "function",
                                function |-> [name |-> toolName,
                                              arguments |-> arguments],
                                hasFinished |-> FALSE]),
             out |-> st.out
                     \o <<[type |-> "tool-input-start", id |-> toolCallId,
                           toolName |-> toolName]>>
                     \o (IF Len(arguments) > 0
                         THEN <<[type |-> "tool-input-delta", id |-> toolCallId,
                                 delta |-> arguments]>>
                         ELSE <<>>),
             gen |-> IF fresh THEN st.gen + 1 ELSE st.gen]
    ELSE LET toolCall == st.toolCalls[index] IN
         IF ~toolCall.hasFinished /\ Truthy(toolCallDelta.function.arguments)
         THEN [toolCalls |-> [st.toolCalls EXCEPT
                                ![index].function.arguments =
                                    Get(toolCallDelta.function.arguments) \o @],
               out |-> st.out
                       \o <<[type |-> "tool-input-delta", id |-> toolCall.id,
                             delta |-> Get(toolCallDelta.function.arguments)]>>,
               gen |-> st.gen]
         ELSE st

\* ProcessToolCallDelta that starts the span again on every later fragment.
ProcessToolCallDeltaRestarts(st, toolCallDelta) ==
    LET index == toolCallDelta.index IN
    IF index \notin DOMAIN st.toolCalls
    THEN
         LET fresh == IsNull(toolCallDelta.id)
             toolCallId == IF fresh THEN generateId(st.gen + 1)
                           ELSE Get(toolCallDelta.id)
             toolName == Get(OrElse(toolCallDelta.function.name, Some(<<>>)))
             arguments == Get(OrElse(toolCallDelta.function.arguments, Some(<<>>)))
         IN [toolCalls |-> Put(st.toolCalls, index,
                               [id |-> toolCallId, type |-> "function",
                                function |-> [name |-> toolName,
                                              arguments |-> arguments],
                                hasFinished |-> FALSE]),
             out |-> st.out
                     \o <<[type |-> "tool-input-start", id |-> toolCallId,
                           toolName |-> toolName]>>
                     \o (IF Len(arguments) > 0
                         THEN <<[type |-> "tool-input-delta", id |-> toolCallId,
                                 delta |-> arguments]>>
                         ELSE <<>>),
             gen |-> IF fresh THEN st.gen + 1 ELSE st.gen]
    ELSE
         LET toolCall == st.toolCalls[index] IN
         IF ~toolCall.hasFinished /\ Truthy(toolCallDelta.function.arguments)
         THEN [toolCalls |-> [st.toolCalls EXCEPT
                                ![index].function.arguments =
                                    @ \o Get(toolCallDelta.function.arguments)],
               out |-> st.out
                       \o <<[type |-> "tool-input-start", id |-> toolCall.id,
                             toolName |-> toolCall.function.name]>>
                       \o <<[type |-> "tool-input-delta", id |-> toolCall.id,
                             delta |-> Get(toolCallDelta.function.arguments)]>>,
               gen |-> st.gen]
         ELSE st

\* ProcessToolCallDelta that takes over the identifier and the name of a later
\* fragment.
ProcessToolCallDeltaRenames(st, toolCallDelta) ==
    LET index == toolCallDelta.index IN
    IF index \notin DOMAIN st.toolCalls
    THEN
         LET fresh == IsNull(toolCallDelta.id)
             toolCallId == IF fresh THEN generateId(st.gen + 1)
                           ELSE Get(toolCallDelta.id)
             toolName == Get(OrElse(toolCallDelta.function.name, Some(<<>>)))
             arguments == Get(OrElse(toolCallDelta.function.arguments, Some(<<>>)))
         IN [toolCalls |-> Put(st.toolCalls, index,
                               [id |-> toolCallId, type |-> "function",
                                function |-> [name |-> toolName,
                                              arguments |-> arguments],
                                hasFinished |-> FALSE]),
             out |-> st.out
                     \o <<[type |-> "tool-input-start", id |-> toolCallId,
                           toolName |-> toolName]>>
                     \o (IF Len(arguments) > 0
                         THEN <<[type |-> "tool-input-delta", id |-> toolCallId,
                                 delta |-> arguments]>>
                         ELSE <<>>),
             gen |-> IF fresh THEN st.gen + 1 ELSE st.gen]
    ELSE
         LET toolCall == st.toolCalls[index] IN
         IF ~toolCall.hasFinished /\ Truthy(toolCallDelta.function.arguments)
         THEN [toolCalls |-> [st.toolCalls EXCEPT
                                ![index].id =
                                    Get(OrElse(toolCallDelta.id, Some(@))),
                                ![index].function.name =
                                    Get(OrElse(toolCallDelta.function.name, Some(@))),
                                ![index].function.arguments =
                                    @ \o Get(toolCallDelta.function.arguments)],
               out |-> st.out
                       \o <<[type |-> "tool-input-delta", id |-> toolCall.id,
                             delta |-> Get(toolCallDelta.function.arguments)]>>,
               gen |-> st.gen]
         ELSE st

\* One iteration of `for (const toolCallDelta of delta.tool_calls)`.
\* st = [toolCalls, out, gen]: the array, the events enqueued by the loop so
\* far, and the generator's count.
ProcessToolCallDelta(st, toolCallDelta) ==
    LET index == toolCallDelta.index IN
    IF index \notin DOMAIN st.toolCalls
    THEN \* New tool call
         LET fresh == IsNull(toolCallDelta.id)
             toolCallId == IF fresh THEN generateId(st.gen + 1)
                           ELSE Get(toolCallDelta.id)
             toolName == Get(OrElse(toolCallDelta.function.name, Some(<<>>)))
             arguments == Get(OrElse(toolCallDelta.function.arguments, Some(<<>>)))
         IN [toolCalls |-> Put(st.toolCalls, index,
                               [id |-> toolCallId, type |-> "function",
                                function |-> [name |-> toolName,
                                              arguments |-> arguments],
                                hasFinished |-> FALSE]),
             out |-> st.out
                     \o <<[type |-> "tool-input-start", id |-> toolCallId,
                           toolName |-> toolName]>>
                     \o (IF Len(arguments) > 0
                         THEN <<[type |-> "tool-input-delta", id |-> toolCallId,
                                 delta |-> arguments]>>
                         ELSE <<>>),
             gen |-> IF fresh THEN st.gen + 1 ELSE st.gen]
    ELSE \* Existing tool call - append arguments
         LET toolCall == st.toolCalls[index] IN
         IF ~toolCall.hasFinished /\ Truthy(toolCallDelta.function.arguments)
         THEN [toolCalls |-> [st.toolCalls EXCEPT
                                ![index].function.arguments =
                                    @ \o Get(toolCallDelta.function.arguments)],
               out |-> st.out
                       \o <<[type |-> "tool-input-delta", id |-> toolCall.id,
                             delta |-> Get(toolCallDelta.function.arguments)]>>,
               gen |-> st.gen]
         ELSE st

RECURSIVE ProcessToolCalls(_, _)
ProcessToolCalls(st, frags) ==
    IF frags = <<>> THEN st
    ELSE ProcessToolCalls(ProcessToolCallDelta(st, Head(frags)), Tail(frags))

\* transformFailed that also counts the failed chunk as the first chunk.
transformFailedConsumesFirstChunk(st, chunk) ==
    [st EXCEPT !.finishReason = "error",
               !.isFirstChunk = FALSE,
               !.out = <<[type |-> "error", error |-> chunk.error]>>]

\* transform(), a chunk whose parsing failed: the new closure state, and
\* out, the events it enqueues.
transformFailed(st, chunk) ==
    [st EXCEPT !.finishReason = "error",
               !.out = <<[type |-> "error", error |-> chunk.error]>>]

\* transform(), a chunk that parsed to value.
transformParsed(st, value) ==
    LET choice == FirstChoice(value)
        meta == MetadataOut(st.isFirstChunk, value)
        early == [st EXCEPT
                    !.isFirstChunk = FALSE,
                    !.usage = AccumulateUsage(st.usage, value),
                    !.finishReason = NextFinishReason(st.finishReason, value),
                    !.out = meta]
    IN IF IsNull(choice) \/ IsNull(Get(choice).delta)
       THEN early
       ELSE LET delta == Get(Get(choice).delta)
                rOut == ReasoningOut(st.isActiveReasoning, delta)
                tOut == TextOut(st.isActiveText, delta)
                none == [toolCalls |-> st.toolCalls, out |-> <<>>,
                         gen |-> st.genCount]
                tc == IF ~IsNull(delta.tool_calls)
                      THEN ProcessToolCalls(none, Get(delta.tool_calls))
                      ELSE none
            IN [early EXCEPT
                  !.isActiveReasoning = (@ \/ Truthy(ReasoningContent(delta))),
                  !.isActiveText = (@ \/ Truthy(delta.content)),
                  !.toolCalls = tc.toolCalls,
                  !.genCount = tc.gen,
                  !.out = meta \o rOut \o tOut \o tc.out]

\* The body of transform() as a function of the closure state st and the chunk.
transform(st, chunk) ==
    IF ~chunk.success
    THEN transformFailed(st, chunk)
    ELSE transformParsed(st, chunk.value)

\* The closure state of the running call.
DecoderState ==
    [toolCalls |-> toolCalls, finishReason |-> finishReason, usage |-> usage,
     isFirstChunk |-> isFirstChunk, isActiveReasoning |-> isActiveReasoning,
     isActiveText |-> isActiveText, genCount |-> genCount, out |-> <<>>]

Transform(chunk) ==
    /\ pc = "streaming"
    /\ Len(frames) < MaxFrames
    /\ frames' = Append(frames, chunk)
    /\ pc' = pc
    /\ LET st == transform(DecoderState, chunk)
       IN /\ events' = events \o st.out
          /\ toolCalls' = st.toolCalls
          /\ finishReason' = st.finishReason
          /\ usage' = st.usage
          /\ isFirstChunk' = st.isFirstChunk
          /\ isActiveReasoning' = st.isActiveReasoning
          /\ isActiveText' = st.isActiveText
          /\ genCount' = st.genCount
    /\ UNCHANGED <<pvars, cvars, dvars, mvars>>

----------------------------------------------------------------------------
(* flush(controller) *)

MinOf(S) == CHOOSE i \in S : \A j \in S : i <= j

\* FinishToolCalls visiting the assigned indices from the highest down.
RECURSIVE FinishToolCallsDescending(_, _)
FinishToolCallsDescending(tcs, S) ==
    IF S = {} THEN <<>>
    ELSE LET i == CHOOSE k \in S : \A j \in S : j <= k
             toolCall == tcs[i]
         IN (IF ~toolCall.hasFinished
             THEN <<[type |-> "tool-input-end", id |-> toolCall.id],
                    [type |-> "tool-call", toolCallId |-> toolCall.id,
                     toolName |-> toolCall.function.name,
                     input |-> toolCall.function.arguments]>>
             ELSE <<>>)
            \o FinishToolCallsDescending(tcs, S \ {i})

\* for (const toolCall of toolCalls.filter(tc => !tc.hasFinished)): filter
\* visits the assigned indices in ascending order and skips the holes.
RECURSIVE FinishToolCalls(_, _)
FinishToolCalls(tcs, S) ==
    IF S = {} THEN <<>>
    ELSE LET i == MinOf(S)
             toolCall == tcs[i]
         IN (IF ~toolCall.hasFinished
             THEN <<[type |-> "tool-input-end", id |-> toolCall.id],
                    [type |-> "tool-call", toolCallId |-> toolCall.id,
                     toolName |-> toolCall.function.name,
                     input |-> toolCall.function.arguments]>>
             ELSE <<>>)
            \o FinishToolCalls(tcs, S \ {i})

\* doGenerate: usage: { inputTokens: {...}, outputTokens: {...} } of the
\* response body's usage (None when the body has none).
doGenerateUsage(bodyUsage) ==
    LET vu == IF IsNull(bodyUsage) THEN BaseUsage ELSE Get(bodyUsage)
    IN [inputTokens |-> [total |-> vu.prompt_tokens, noCache |-> None,
                         cacheRead |-> vu.cached_tokens, cacheWrite |-> None],
        outputTokens |-> [total |-> vu.completion_tokens, text |-> None,
                          reasoning |-> vu.reasoning_tokens]]

\* Emit finish event.
FinishEvent(reason, u) ==
    [type |-> "finish",
     finishReason |-> reason,
     usage |-> [inputTokens |-> [total |-> u.promptTokens, noCache |-> None,
                                 cacheRead |-> u.cachedTokens, cacheWrite |-> None],
                outputTokens |-> [total |-> u.completionTokens, text |-> None,
                                  reasoning |-> u.reasoningTokens]]]

\* FlushOut without the closing of the text span.
FlushOutNoTextEnd(activeReasoning, activeText, tcs, reason, u) ==
    (IF activeReasoning THEN <<[type |-> "reasoning-end", id |-> "reasoning-0"]>>
     ELSE <<>>)
    \o FinishToolCalls(tcs, DOMAIN tcs)
    \o <<FinishEvent(reason, u)>>

\* FlushOut with the finish event enqueued before the tool calls are finished.
FlushOutFinishEarly(activeReasoning, activeText, tcs, reason, u) ==
    (IF activeReasoning THEN <<[type |-> "reasoning-end", id |-> "reasoning-0"]>>
     ELSE <<>>)
    \o (IF activeText THEN <<[type |-> "text-end", id |-> "txt-0"]>> ELSE <<>>)
    \o <<FinishEvent(reason, u)>>
    \o FinishToolCalls(tcs, DOMAIN tcs)

\* FlushOut with the text span closed before the reasoning span.
FlushOutTextEndFirst(activeReasoning, activeText, tcs, reason, u) ==
    (IF activeText THEN <<[type |-> "text-end", id |-> "txt-0"]>> ELSE <<>>)
    \o (IF activeReasoning THEN <<[type |-> "reasoning-end", id |-> "reasoning-0"]>>
        ELSE <<>>)
    \o FinishToolCalls(tcs, DOMAIN tcs)
    \o <<FinishEvent(reason, u)>>

FlushOut(activeReasoning, activeText, tcs, reason, u) ==
    (IF activeReasoning THEN <<[type |-> "reasoning-end", id |-> "reasoning-0"]>>
     ELSE <<>>)
    \o (IF activeText THEN <<[type |-> "text-end", id |-> "txt-0"]>> ELSE <<>>)
    \o FinishToolCalls(tcs, DOMAIN tcs)
    \o <<FinishEvent(reason, u)>>

Flush ==
    /\ pc = "streaming"
    /\ pc' = "done"
    /\ events' = events \o FlushOut(isActiveReasoning, isActiveText, toolCalls,
                                    finishReason, usage)
    /\ UNCHANGED <<frames, toolCalls, finishReason, usage, isFirstChunk,
                   isActiveReasoning, isActiveText, genCount>>
    /\ UNCHANGED <<pvars, cvars, dvars, mvars>>

Next ==
    \/ \E chunk \in Frames : Transform(chunk)
    \/ Flush

Spec == Init /\ [][Next]_<<vars, pvars, cvars, dvars, mvars>>

----------------------------------------------------------------------------
(* Reading the event sequence *)

IndicesOf(type) == {i \in DOMAIN events : events[i].type = type}

CountOf(type) == Cardinality(IndicesOf(type))

\* The span kinds and the event types that start, extend and end a span.
Kinds == {"text", "reasoning", "tool-input"}

StartType(k) == k \o "-start"
DeltaType(k) == k \o "-delta"
EndType(k) == k \o "-end"

\* Indices of the events of type `type` that belong to the span `id`.
SpanIndices(type, id) == {i \in IndicesOf(type) : events[i].id = id}

\* The span identifiers opened so far, per kind.
OpenedSpans(k) == {events[i].id : i \in IndicesOf(StartType(k))}

SomeFrameFailed == \E i \in DOMAIN frames : ~frames[i].success

SomeFrameParsed == \E i \in DOMAIN frames : frames[i].success

----------------------------------------------------------------------------
\* C1: every span has one start, which precedes all of its deltas; no delta
\* of a span follows its end; a span has no end while the stream is being
\* decoded and exactly one end, after its start, once the stream has ended.
\* (The stream's tool-call positions carry distinct identifiers, so a span of
\* kind tool-input is a tool-call position.)
SpanDiscipline ==
    \A k \in Kinds :
        /\ \A i \in IndicesOf(DeltaType(k)) :
              /\ \E s \in SpanIndices(StartType(k), events[i].id) : s < i
              /\ \A e \in SpanIndices(EndType(k), events[i].id) : i < e
        /\ \A i \in IndicesOf(EndType(k)) : events[i].id \in OpenedSpans(k)
        /\ \A id \in OpenedSpans(k) :
              /\ Cardinality(SpanIndices(StartType(k), id)) = 1
              /\ Cardinality(SpanIndices(EndType(k), id)) = IF pc = "done" THEN 1 ELSE 0
              /\ \A s \in SpanIndices(StartType(k), id) :
                    \A e \in SpanIndices(EndType(k), id) : s < e

\* A finished stream with a reasoning span, a text span and a tool-call
\* span, each with a delta.
SpanDisciplineWitness ==
    /\ pc = "done"
    /\ \A k \in Kinds : IndicesOf(DeltaType(k)) # {} /\ IndicesOf(EndType(k)) # {}

\* C2: finish is emitted exactly once, as the last event, when the stream
\* ends, and not before.
FinishOnceAndLast ==
    IF pc = "done"
    THEN CountOf("finish") = 1 /\ events[Len(events)].type = "finish"
    ELSE CountOf("finish") = 0

\* A finished stream in which a frame failed to parse.
FinishOnceAndLastWitness ==
    /\ pc = "done"
    /\ SomeFrameFailed
    /\ events[Len(events)].type = "finish"

\* The empty stream, finished.
EmptyStreamFinished ==
    pc = "done" /\ frames = <<>> /\ Len(events) = 2

----------------------------------------------------------------------------
ContentTypes ==
    {"text-start", "text-delta", "text-end",
     "reasoning-start", "reasoning-delta", "reasoning-end",
     "tool-input-start", "tool-input-delta", "tool-input-end", "tool-call"}

ContentIndices == {i \in DOMAIN events : events[i].type \in ContentTypes}

\* Index of the first frame that parsed (0 if none did).
FirstParsed ==
    IF SomeFrameParsed
    THEN CHOOSE i \in DOMAIN frames :
            frames[i].success /\ \A j \in 1..(i - 1) : ~frames[j].success
    ELSE 0

\* C3 as stated: every finished stream has exactly one response-metadata
\* event, and it precedes every content event.
MetadataExactlyOnce ==
    pc = "done" =>
        /\ CountOf("response-metadata") = 1
        /\ \A m \in IndicesOf("response-metadata") : \A i \in ContentIndices : m < i

\* C3 amended: response-metadata occurs at most once, and exactly once iff
\* some frame parsed; it is the first event of the first frame that parsed
\* (only stream-start and the error events of the failed frames before it
\* precede it), so it precedes every content event.
MetadataOnFirstParsedFrame ==
    /\ CountOf("response-metadata") = IF SomeFrameParsed THEN 1 ELSE 0
    /\ \A m \in IndicesOf("response-metadata") :
          /\ m = FirstParsed + 1
          /\ \A i \in 1..(m - 1) : events[i].type \in {"stream-start", "error"}
          /\ \A i \in ContentIndices : m < i
    /\ ~SomeFrameParsed => ContentIndices = {}

\* A failed frame, then the first frame that parsed, then a later frame
\* that parsed; content has been emitted.
MetadataOnFirstParsedFrameWitness ==
    /\ Len(frames) = 3
    /\ ~frames[1].success /\ frames[2].success /\ frames[3].success
    /\ ContentIndices # {}
    /\ events[3].type = "response-metadata"

----------------------------------------------------------------------------
\* {reasoning: 'Let'}, {reasoning: ' me think'},
\* {content: '42', finish_reason: 'stop', usage}
ScenarioFrames ==
    << WithDelta([BaseDelta EXCEPT !.reasoning = Some(<<"Let">>)]),
       WithDelta([BaseDelta EXCEPT !.reasoning = Some(<<" me think">>)]),
       FinalFrame >>

ScenarioFinish ==
    [type |-> "finish", finishReason |-> "stop",
     usage |-> [inputTokens |-> [total |-> Some(10), noCache |-> None,
                                 cacheRead |-> None, cacheWrite |-> None],
                outputTokens |-> [total |-> Some(20), text |-> None,
                                  reasoning |-> None]]]

ScenarioMetadata ==
    [type |-> "response-metadata", id |-> Some("chatcmpl-1"),
     modelId |-> Some("gpt-4o"), timestamp |-> Some(1000)]

\* C4 as stated: after stream-start the scenario decodes to response-metadata,
\* reasoning-start, both reasoning deltas, reasoning-end, text-start,
\* text-delta, text-end, finish.
ScenarioClosesReasoningBeforeText ==
    (pc = "done" /\ frames = ScenarioFrames) =>
        Tail(events) =
            << ScenarioMetadata,
               [type |-> "reasoning-start", id |-> "reasoning-0"],
               [type |-> "reasoning-delta", id |-> "reasoning-0", delta |-> <<"Let">>],
               [type |-> "reasoning-delta", id |-> "reasoning-0",
                delta |-> <<" me think">>],
               [type |-> "reasoning-end", id |-> "reasoning-0"],
               [type |-> "text-start", id |-> "txt-0"],
               [type |-> "text-delta", id |-> "txt-0", delta |-> <<"42">>],
               [type |-> "text-end", id |-> "txt-0"],
               ScenarioFinish >>

\* What the scenario decodes to: the same events, with reasoning-end at
\* flush, after text-delta.
ScenarioClosesReasoningAtFlush ==
    (pc = "done" /\ frames = ScenarioFrames) =>
        Tail(events) =
            << ScenarioMetadata,
               [type |-> "reasoning-start", id |-> "reasoning-0"],
               [type |-> "reasoning-delta", id |-> "reasoning-0", delta |-> <<"Let">>],
               [type |-> "reasoning-delta", id |-> "reasoning-0",
                delta |-> <<" me think">>],
               [type |-> "text-start", id |-> "txt-0"],
               [type |-> "text-delta", id |-> "txt-0", delta |-> <<"42">>],
               [type |-> "reasoning-end", id |-> "reasoning-0"],
               [type |-> "text-end", id |-> "txt-0"],
               ScenarioFinish >>

----------------------------------------------------------------------------
\* Frames that report the usage field `field`.
Reporting(field) ==
    {i \in DOMAIN frames :
        /\ frames[i].success
        /\ ~IsNull(frames[i].value.usage)
        /\ ~IsNull(Get(frames[i].value.usage)[field])}

MaxOf(S) == CHOOSE i \in S : \A j \in S : j <= i

\* The value of `field` in the latest frame that reported it.
LastReported(field) ==
    IF Reporting(field) = {} THEN None
    ELSE Get(frames[MaxOf(Reporting(field))].value.usage)[field]

\* C5 as stated: each usage field of the finish event has the value of the
\* latest frame that reported that field.
UsageLastWriteWinsPerField ==
    pc = "done" =>
        LET u == events[Len(events)].usage
        IN /\ u.inputTokens.total = LastReported("prompt_tokens")
           /\ u.outputTokens.total = LastReported("completion_tokens")
           /\ u.outputTokens.reasoning = LastReported("reasoning_tokens")
           /\ u.inputTokens.cacheRead = LastReported("cached_tokens")

----------------------------------------------------------------------------
\* The delta texts of the tool-input-delta events of span `id` among the
\* first n events, concatenated in emission order.
RECURSIVE DeltaText(_, _)
DeltaText(id, n) ==
    IF n = 0 THEN <<>>
    ELSE DeltaText(id, n - 1)
         \o (IF events[n].type = "tool-input-delta" /\ events[n].id = id
             THEN events[n].delta ELSE <<>>)

----------------------------------------------------------------------------
FailedCount == Cardinality({i \in DOMAIN frames : ~frames[i].success})

\* C7 as stated: when a frame failed to parse, the finish event carries the
\* finish reason error, and one error event was emitted per failed frame.
ParseFailureDegradesFinish ==
    (pc = "done" /\ SomeFrameFailed) =>
        /\ events[Len(events)].finishReason = "error"
        /\ CountOf("error") = FailedCount

\* What holds instead: the finish reason is error when the last frame of the
\* stream is a failed one, and one error event is emitted per failed frame.
ParseFailureDegradesUntilOverwritten ==
    /\ CountOf("error") = FailedCount
    /\ (pc = "done" /\ frames # <<>> /\ ~frames[Len(frames)].success) =>
          events[Len(events)].finishReason = "error"

----------------------------------------------------------------------------
\* The closure state and the events after decoding the frames fs from the
\* state after construction.
RECURSIVE Replay(_)
Replay(fs) ==
    IF fs = <<>>
    THEN [st |-> InitialState, ev |-> <<[type |-> "stream-start"]>>]
    ELSE LET before == Replay(SubSeq(fs, 1, Len(fs) - 1))
             st == transform(before.st, fs[Len(fs)])
         IN [st |-> [st EXCEPT !.out = <<>>], ev |-> before.ev \o st.out]

IsParsed(f) == f.success

IsNotError(e) == e.type # "error"

\* The closure state with the finish reason masked.
SansFinishReason(st) == [st EXCEPT !.finishReason = "masked"]

\* C8: a failed frame enqueues one error event and nothing else, sets the
\* finish reason to error and changes nothing else: the closure state, but
\* for the finish reason, and the events, but for the error events, are the
\* ones of the same stream with the failed frames left out (at end-of-stream
\* too, where the finish event carries the finish reason of the stream).
FailedFrameOnlyReportsError ==
    LET alone == Replay(SelectSeq(frames, IsParsed))
        decoded == IF pc = "done"
                   THEN alone.ev \o FlushOut(alone.st.isActiveReasoning,
                                             alone.st.isActiveText,
                                             alone.st.toolCalls,
                                             finishReason, alone.st.usage)
                   ELSE alone.ev
    IN /\ SelectSeq(events, IsNotError) = decoded
       /\ CountOf("error") = FailedCount
       /\ SansFinishReason(DecoderState) = SansFinishReason(alone.st)
       /\ (pc = "streaming" /\ frames # <<>> /\ ~frames[Len(frames)].success) =>
             /\ finishReason = "error"
             /\ events[Len(events)].type = "error"

\* A failed frame between two parsed frames that both emit content, the
\* second being the continuation of a tool call begun by the first.
FailedFrameOnlyReportsErrorWitness ==
    /\ Len(frames) = 3
    /\ frames[1].success /\ ~frames[2].success /\ frames[3].success
    /\ events[Len(events)].type = "tool-input-delta"
    /\ \E i \in IndicesOf("tool-input-start") : events[i].id = events[Len(events)].id
    /\ CountOf("error") = 1

----------------------------------------------------------------------------
\* The table of C9.
MappedReason(code) ==
    IF code = "stop" THEN "stop"
    ELSE IF code = "length" THEN "length"
    ELSE IF code = "content_filter" THEN "content-filter"
    ELSE IF code \in {"tool_calls", "function_call"} THEN "tool-calls"
    ELSE "unknown"

\* The finish_reason of the first choice of the frame last decoded (None
\* when the frame failed to parse, has no choice, or reports none).
LastCode ==
    IF frames = <<>> \/ ~frames[Len(frames)].success THEN None
    ELSE LET choice == FirstChoice(frames[Len(frames)].value)
         IN IF IsNull(choice) THEN None ELSE Get(choice).finish_reason

\* C9: a frame that carries a finish-reason code leaves the finish reason
\* this table gives for the code, unknown for a code the table does not
\* name; an absent code maps to unknown; the finish reason is always in the
\* closed set, or error.
FinishReasonIsMapped ==
    /\ ~IsNull(LastCode) => finishReason = MappedReason(Get(LastCode))
    /\ mapOpenAIFinishReason(None) = "unknown"
    /\ finishReason \in {"stop", "length", "content-filter", "tool-calls",
                         "unknown", "error"}

\* An unrecognised code that replaces a finish reason set by an earlier
\* frame.
FinishReasonIsMappedWitness ==
    /\ Len(frames) = 2
    /\ frames[1] = FinalFrame
    /\ LastCode = Some("eos")
    /\ finishReason = "unknown"

\* The legacy code function_call decoded as the last frame of a longest
\* stream.
LegacyCodeDecoded ==
    /\ Len(frames) = MaxFrames
    /\ LastCode = Some("function_call")
    /\ finishReason = "tool-calls"

----------------------------------------------------------------------------
\* C10: flush enqueues reasoning-end iff the reasoning span is open, then
\* text-end iff the text span is open, then for every tool-call position not
\* marked complete a tool-input-end immediately followed by the tool-call of
\* the position, each position once, then finish with the finish reason and
\* the accumulated usage; and nothing else.
FlushOrder ==
    [][ (pc = "streaming" /\ pc' = "done") =>
          LET suffix == SubSeq(events', Len(events) + 1, Len(events'))
              r == IF isActiveReasoning THEN 1 ELSE 0
              t == IF isActiveText THEN 1 ELSE 0
              open == {p \in DOMAIN toolCalls : ~toolCalls[p].hasFinished}
              n == Cardinality(open)
              EndOf(p) == [type |-> "tool-input-end", id |-> toolCalls[p].id]
              CallOf(p) == [type |-> "tool-call", toolCallId |-> toolCalls[p].id,
                            toolName |-> toolCalls[p].function.name,
                            input |-> toolCalls[p].function.arguments]
              At(k) == r + t + 2 * k
          IN /\ Len(suffix) = r + t + 2 * n + 1
             /\ isActiveReasoning =>
                   suffix[1] = [type |-> "reasoning-end", id |-> "reasoning-0"]
             /\ isActiveText => suffix[r + 1] = [type |-> "text-end", id |-> "txt-0"]
             /\ \A k \in 1..n :
                   \E p \in open : /\ suffix[At(k) - 1] = EndOf(p)
                                   /\ suffix[At(k)] = CallOf(p)
             /\ \A p \in open :
                   Cardinality({k \in 1..n : suffix[At(k)] = CallOf(p)}) = 1
             /\ suffix[Len(suffix)] =
                   [type |-> "finish", finishReason |-> finishReason,
                    usage |-> [inputTokens |-> [total |-> usage.promptTokens,
                                                noCache |-> None,
                                                cacheRead |-> usage.cachedTokens,
                                                cacheWrite |-> None],
                               outputTokens |-> [total |-> usage.completionTokens,
                                                 text |-> None,
                                                 reasoning |-> usage.reasoningTokens]]]
      ]_vars

\* A flushed stream that had the reasoning span, the text span and two
\* tool-call positions open.
FlushOrderWitness ==
    /\ pc = "done"
    /\ isActiveReasoning /\ isActiveText
    /\ Cardinality(DOMAIN toolCalls) = 2
    /\ CountOf("tool-call") = 2

\* A flushed stream with no span open.
FlushOnlyFinish ==
    /\ pc = "done"
    /\ frames # <<>>
    /\ ~isActiveReasoning /\ ~isActiveText /\ DOMAIN toolCalls = {}
    /\ events[Len(events) - 1].type # "finish"

----------------------------------------------------------------------------
\* The position whose tool call carries the identifier id.
PositionOf(id) == CHOOSE p \in DOMAIN toolCalls : toolCalls[p].id = id

\* C11: at flush the tool-input-end events, and the tool-call events, are in
\* ascending order of position, every position once, whatever the order in
\* which the positions first appeared and whatever positions are missing
\* between them.
FlushAscendingByPosition ==
    pc = "done" =>
        /\ \A i, j \in IndicesOf("tool-input-end") :
              i < j => PositionOf(events[i].id) < PositionOf(events[j].id)
        /\ \A i, j \in IndicesOf("tool-call") :
              i < j => PositionOf(events[i].toolCallId)
                          < PositionOf(events[j].toolCallId)
        /\ {PositionOf(events[i].toolCallId) : i \in IndicesOf("tool-call")}
              = DOMAIN toolCalls
        /\ \A i \in IndicesOf("tool-call") :
              /\ events[i - 1].type = "tool-input-end"
              /\ events[i - 1].id = events[i].toolCallId

\* A flushed stream in which position 2 appeared before position 0 and
\* position 1 never appeared.
FlushAscendingByPositionWitness ==
    /\ pc = "done"
    /\ DOMAIN toolCalls = {0, 2}
    /\ \E s2, s0 \in IndicesOf("tool-input-start") :
          /\ s2 < s0
          /\ events[s2].id = toolCalls[2].id
          /\ events[s0].id = toolCalls[0].id
    /\ CountOf("tool-call") = 2

----------------------------------------------------------------------------
\* The tool-call fragments a frame carries (none when it failed to parse or
\* has no delta or no tool_calls).
FrameFragments(f) ==
    IF ~f.success THEN <<>>
    ELSE LET choice == FirstChoice(f.value)
         IN IF IsNull(choice) \/ IsNull(Get(choice).delta) THEN <<>>
            ELSE Get(OrElse(Get(Get(choice).delta).tool_calls, Some(<<>>)))

\* The fragments of the first n frames, in arrival order.
RECURSIVE AllFragments(_)
AllFragments(n) ==
    IF n = 0 THEN <<>> ELSE AllFragments(n - 1) \o FrameFragments(frames[n])

\* The fragments that arrived at position p, in arrival order.
FragmentsAt(p) ==
    SelectSeq(AllFragments(Len(frames)), LAMBDA f : f.index = p)

\* The argument text of a fragment ('' when it has none).
ArgsOf(f) == IF IsNull(f.function.arguments) THEN <<>> ELSE Get(f.function.arguments)

RECURSIVE ConcatArgs(_)
ConcatArgs(fs) ==
    IF fs = <<>> THEN <<>> ELSE ArgsOf(Head(fs)) \o ConcatArgs(Tail(fs))

\* The texts of the tool-input-delta events of span id, one per event, in
\* emission order.
DeltasOf(id) ==
    LET ds == SelectSeq(events, LAMBDA e : e.type = "tool-input-delta" /\ e.id = id)
    IN [i \in 1..Len(ds) |-> ds[i].delta]

\* The non-empty argument texts of the fragments fs, one per fragment.
NonEmptyArgs(fs) ==
    LET ne == SelectSeq(fs, LAMBDA f : Len(ArgsOf(f)) > 0)
    IN [i \in 1..Len(ne) |-> ArgsOf(ne[i])]

\* C12: there is one tool call, and one tool-input-start, per position that
\* received a fragment, whatever identifiers the fragments carry.  The start
\* has the identifier of the first fragment at the position, or a generated
\* one if that fragment has none, and its name ('' if it has none); it is
\* immediately followed by a tool-input-delta of the span iff the first
\* fragment has non-empty argument text.  The deltas of the span are the
\* non-empty argument texts of the fragments at the position, one delta per
\* fragment in arrival order, and the accumulated arguments are their
\* concatenation.
FragmentsKeyedByPosition ==
    /\ DOMAIN toolCalls
          = {AllFragments(Len(frames))[i].index : i \in 1..Len(AllFragments(Len(frames)))}
    /\ CountOf("tool-input-start") = Cardinality(DOMAIN toolCalls)
    /\ \A p \in DOMAIN toolCalls :
          LET fs == FragmentsAt(p)
              first == fs[1]
              id == toolCalls[p].id
              starts == SpanIndices("tool-input-start", id)
          IN /\ Cardinality(starts) = 1
             /\ IF IsNull(first.id)
                THEN \E n \in 1..genCount : id = generateId(n)
                ELSE id = Get(first.id)
             /\ \A s \in starts :
                   /\ events[s].toolName
                         = (IF IsNull(first.function.name) THEN <<>>
                            ELSE Get(first.function.name))
                   /\ IF Len(ArgsOf(first)) > 0
                      THEN /\ s < Len(events)
                           /\ events[s + 1] = [type |-> "tool-input-delta", id |-> id,
                                               delta |-> ArgsOf(first)]
                      ELSE s < Len(events) =>
                              ~(/\ events[s + 1].type = "tool-input-delta"
                                /\ events[s + 1].id = id
                                /\ Len(fs) = 1)
             /\ DeltasOf(id) = NonEmptyArgs(fs)
             /\ toolCalls[p].function.arguments = ConcatArgs(fs)

\* Position 0 opened by a fragment without identifier and name but with
\* argument text, then extended by a fragment that carries another
\* identifier; position 1 opened by a fragment without argument text.
FragmentsKeyedByPositionWitness ==
    /\ DOMAIN toolCalls = {0, 1}
    /\ Len(FragmentsAt(0)) = 2
    /\ IsNull(FragmentsAt(0)[1].id)
    /\ FragmentsAt(0)[2].id = Some("call_X")
    /\ toolCalls[0].id = generateId(1)
    /\ Len(DeltasOf(toolCalls[0].id)) = 2
    /\ Len(DeltasOf(toolCalls[1].id)) = 0
    /\ SpanIndices("tool-input-start", "call_X") = {}

----------------------------------------------------------------------------
\* The delta of a frame (None when it failed to parse or has no choice or no
\* delta).
FrameDelta(f) ==
    IF ~f.success THEN None
    ELSE LET choice == FirstChoice(f.value)
         IN IF IsNull(choice) THEN None ELSE Get(choice).delta

\* The reasoning text of a frame: reasoning_content when the frame has that
\* field, reasoning otherwise; '' when it has neither.
ReasoningTextOf(f) ==
    IF IsNull(FrameDelta(f)) THEN <<>>
    ELSE LET delta == Get(FrameDelta(f))
         IN IF ~IsNull(delta.reasoning_content) THEN Get(delta.reasoning_content)
            ELSE IF ~IsNull(delta.reasoning) THEN Get(delta.reasoning)
            ELSE <<>>

\* The text content of a frame ('' when it has none).
ContentOf(f) ==
    IF IsNull(FrameDelta(f)) \/ IsNull(Get(FrameDelta(f)).content) THEN <<>>
    ELSE Get(Get(FrameDelta(f)).content)

\* The non-empty values of Text(f) over the frames, one per frame, in order.
NonEmptyTexts(Text(_)) ==
    LET ne == SelectSeq(frames, LAMBDA f : Len(Text(f)) > 0)
    IN [i \in 1..Len(ne) |-> Text(ne[i])]

\* The texts of the events of type `type`, one per event, in emission order.
DeltaTexts(type) ==
    LET ds == SelectSeq(events, LAMBDA e : e.type = type)
    IN [i \in 1..Len(ds) |-> ds[i].delta]

\* C13: the reasoning-delta events carry the non-empty reasoning texts of the
\* frames, one event per such frame and none for the other frames;
\* reasoning-start is emitted once, immediately before the first of them;
\* the text-delta events likewise carry the non-empty contents of the frames
\* whatever reasoning the frames have; and a frame with both has its
\* reasoning-delta immediately followed by its text events.
ReasoningThenTextPerFrame ==
    /\ DeltaTexts("reasoning-delta") = NonEmptyTexts(ReasoningTextOf)
    /\ CountOf("reasoning-start") = IF IndicesOf("reasoning-delta") = {} THEN 0 ELSE 1
    /\ \A s \in IndicesOf("reasoning-start") :
          s + 1 = MinOf(IndicesOf("reasoning-delta"))
    /\ DeltaTexts("text-delta") = NonEmptyTexts(ContentOf)
    /\ CountOf("text-start") = IF IndicesOf("text-delta") = {} THEN 0 ELSE 1
    /\ (/\ pc = "streaming"
        /\ frames # <<>>
        /\ Len(ReasoningTextOf(frames[Len(frames)])) > 0
        /\ Len(ContentOf(frames[Len(frames)])) > 0) =>
          LET rd == MaxOf(IndicesOf("reasoning-delta"))
              td == MaxOf(IndicesOf("text-delta"))
          IN /\ rd < td
             /\ \A i \in (rd + 1)..td : events[i].type \in {"text-start", "text-delta"}
             /\ \A i \in (td + 1)..Len(events) :
                   events[i].type \in {"tool-input-start", "tool-input-delta"}

\* A frame whose reasoning_content is '' next to a non-empty reasoning,
\* followed by the frame that carries reasoning text and content at once.
ReasoningThenTextPerFrameWitness ==
    /\ pc = "streaming"
    /\ Len(frames) = 2
    /\ ~IsNull(FrameDelta(frames[1]))
    /\ ~IsNull(Get(FrameDelta(frames[1])).reasoning)
    /\ ReasoningTextOf(frames[1]) = <<>>
    /\ frames[2] = MixedFrame
    /\ CountOf("reasoning-delta") = 1
    /\ CountOf("text-delta") = 1

----------------------------------------------------------------------------
(* Pollers.  An asynchronous job has been submitted and the upstream has   *)
(* answered with a task identifier; the handler polls the status endpoint  *)
(* until the task is terminal and then fetches the artifact.  Six pollers   *)
(* are modelled: pollForResult of AI302SpeechModel, bounded by a number of *)
(* attempts, and the pollTask loops of the Flux, Kling, Wan, Vidu and       *)
(* Midjourney image handlers, bounded by wall-clock time.                   *)
(*                                                                         *)
(* The code is suspended only at an await; an action is the code between   *)
(* two awaits.  The abort signal can be triggered while the code is        *)
(* suspended.  The status vocabularies of the upstreams are written in one *)
(* vocabulary: "pending" (pending, processing, submitted, RUNNING, ...),   *)
(* "succeeded" (completed, Ready, succeed, SUCCEEDED, success, SUCCESS)    *)
(* and "failed" (failed, Failed, FAILED); the artifact is the field the    *)
(* poller or its caller reads the reference from (audio_url, result,       *)
(* task_result.images, output.choices, creations, imageUrl), None when it  *)
(* is absent or empty.                                                     *)

Handlers == {"speech", "flux", "kling", "wan", "vidu", "midjourney"}

\* const POLL_INTERVAL = 2000 (Flux, Kling, Vidu, Midjourney)
POLL_INTERVAL == 2000
\* const POLL_INTERVAL = 3000 (Wan)
WAN_POLL_INTERVAL == 3000
\* const MAX_POLL_TIME = 300000
MAX_POLL_TIME == 300000
\* ai302Options.pollInterval ?? 2000
DEFAULT_POLL_INTERVAL == 2000

\* Largest maxAttempts explored.
MaxAttempts == 3
\* Time a slow status request takes to settle, in milliseconds (a fast one
\* takes none).
SlowLatency == 150000

Interval(h) ==
    CASE h = "speech" -> DEFAULT_POLL_INTERVAL
      [] h = "wan" -> WAN_POLL_INTERVAL
      [] OTHER -> POLL_INTERVAL

(* What a status request can settle to. *)
StatusResponse(status, artifact) ==
    [kind |-> "ok", code |-> 200, status |-> status, artifact |-> artifact]

\* A response whose status code is not 2xx.
HttpError(code) == [kind |-> "http", code |-> code, status |-> "", artifact |-> None]

\* fetch rejects: the request did not reach the upstream or no response came
\* back.
NetworkError == [kind |-> "network", code |-> 0, status |-> "", artifact |-> None]

\* The envelope of Kling with code !== 0.
ApiError == [kind |-> "ok", code |-> 200, status |-> "api-error", artifact |-> None]

\* fetch rejects with an AbortError; possible only once the signal it was
\* given has been triggered.
AbortError == [kind |-> "abort", code |-> 0, status |-> "", artifact |-> None]

Responses(h, ab) ==
    { StatusResponse("pending", None), StatusResponse("failed", None),
      StatusResponse("succeeded", None), StatusResponse("succeeded", Some("U")),
      HttpError(503), HttpError(500), NetworkError }
        \cup (IF h = "kling" THEN {ApiError} ELSE {})
        \cup (IF ab THEN {AbortError} ELSE {})

(* What each poller does with a settled status request: "return", a        *)
(* failure ("failed", "http", "network", "api", "aborted"), or "again".    *)

\* pollForResult: postJsonToApi throws on every non-2xx response and
\* rethrows an abort error.
pollForResultVerdict(r) ==
    IF r.kind = "abort" THEN "aborted"
    ELSE IF r.kind = "network" THEN "network"
    ELSE IF r.kind = "http" THEN "http"
    ELSE IF r.status = "succeeded" /\ ~IsNull(r.artifact) THEN "return"
    ELSE IF r.status = "failed" THEN "failed"
    ELSE "again"

\* Flux2ProHandler.pollTask
fluxVerdict(r) ==
    IF r.kind = "abort" THEN "aborted"
    ELSE IF r.kind = "network" THEN "network"
    ELSE IF r.kind = "http" THEN "http"
    ELSE IF r.status = "succeeded" /\ ~IsNull(r.artifact) THEN "return"
    ELSE IF r.status = "failed" THEN "failed"
    ELSE "again"

\* KlingO1Handler.pollTask, had it no branch for 503.
klingVerdictFailsOn503(r) ==
    IF r.kind = "abort" THEN "aborted"
    ELSE IF r.kind = "network" THEN "network"
    ELSE IF r.kind = "http" THEN "http"
    ELSE IF r.status = "api-error" THEN "api"
    ELSE IF r.status = "failed" THEN "failed"
    ELSE IF r.status = "succeeded" /\ ~IsNull(r.artifact) THEN "return"
    ELSE "again"

\* KlingO1Handler.pollTask
klingVerdict(r) ==
    IF r.kind = "abort" THEN "aborted"
    ELSE IF r.kind = "network" THEN "network"
    ELSE IF r.kind = "http" THEN (IF r.code = 503 THEN "again" ELSE "http")
    ELSE IF r.status = "api-error" THEN "api"
    ELSE IF r.status = "failed" THEN "failed"
    ELSE IF r.status = "succeeded" /\ ~IsNull(r.artifact) THEN "return"
    ELSE "again"

\* WanImageHandler.pollTask
wanVerdict(r) ==
    IF r.kind = "abort" THEN "aborted"
    ELSE IF r.kind = "network" THEN "network"
    ELSE IF r.kind = "http" THEN "http"
    ELSE IF r.status = "failed" THEN "failed"
    ELSE IF r.status = "succeeded" THEN "return"
    ELSE "again"

\* ViduReference2ImageHandler.pollTask
viduVerdict(r) ==
    IF r.kind = "abort" THEN "aborted"
    ELSE IF r.kind = "network" THEN "network"
    ELSE IF r.kind = "http" THEN "http"
    ELSE IF r.status = "succeeded" /\ ~IsNull(r.artifact) THEN "return"
    ELSE IF r.status = "failed" THEN "failed"
    ELSE "again"

\* MidjourneyHandler.pollTask
midjourneyVerdict(r) ==
    IF r.kind = "abort" THEN "aborted"
    ELSE IF r.kind = "network" THEN "network"
    ELSE IF r.kind = "http" THEN "http"
    ELSE IF r.status = "failed" THEN "failed"
    ELSE IF r.status = "succeeded" THEN "return"
    ELSE "again"

\* Verdict with every HTTP error retried like 503 in the Kling poller.
VerdictRetriesHttp(h, r) ==
    IF r.kind = "http" THEN "again"
    ELSE CASE h = "speech" -> pollForResultVerdict(r)
           [] h = "flux" -> fluxVerdict(r)
           [] h = "kling" -> klingVerdict(r)
           [] h = "wan" -> wanVerdict(r)
           [] h = "vidu" -> viduVerdict(r)
           [] h = "midjourney" -> midjourneyVerdict(r)

\* Verdict with a status of failed taken for one more non-terminal status.
VerdictIgnoresFailed(h, r) ==
    IF r.kind = "ok" /\ r.status = "failed" THEN "again"
    ELSE CASE h = "speech" -> pollForResultVerdict(r)
           [] h = "flux" -> fluxVerdict(r)
           [] h = "kling" -> klingVerdict(r)
           [] h = "wan" -> wanVerdict(r)
           [] h = "vidu" -> viduVerdict(r)
           [] h = "midjourney" -> midjourneyVerdict(r)

Verdict(h, r) ==
    CASE h = "speech" -> pollForResultVerdict(r)
      [] h = "flux" -> fluxVerdict(r)
      [] h = "kling" -> klingVerdict(r)
      [] h = "wan" -> wanVerdict(r)
      [] h = "vidu" -> viduVerdict(r)
      [] h = "midjourney" -> midjourneyVerdict(r)

(* The code from the top of an iteration to its first await: "timeout" or  *)
(* "aborted" (the poll throws), "sleep" (the interval sleep is awaited) or *)
(* "request" (the status request is issued and awaited).                   *)

\* pollForResultTop with the interval sleep before every attempt.
pollForResultTopSleepsFirst(a, max, ab) ==
    IF a >= max THEN "timeout"
    ELSE IF ab THEN "aborted"
    ELSE "sleep"

\* pollForResultTop with one attempt more than the budget.
pollForResultTopOneMore(a, max, ab) ==
    IF a > max THEN "timeout"
    ELSE IF ab THEN "aborted"
    ELSE IF a > 0 THEN "sleep"
    ELSE "request"

\* for (let attempt = 0; attempt < maxAttempts; attempt++) { if aborted
\* throw; if (attempt > 0) await sleep; ...
pollForResultTop(a, max, ab) ==
    IF a >= max THEN "timeout"
    ELSE IF ab THEN "aborted"
    ELSE IF a > 0 THEN "sleep"
    ELSE "request"

\* pollTaskTop with a budget longer than MAX_POLL_TIME.
pollTaskTopLateTimeout(ab, e) ==
    IF ab THEN "aborted"
    ELSE IF e > MAX_POLL_TIME + SlowLatency THEN "timeout"
    ELSE "request"

\* while (true) { if aborted throw; if (Date.now() - startTime >
\* MAX_POLL_TIME) throw; await fetch ...
pollTaskTop(ab, e) ==
    IF ab THEN "aborted"
    ELSE IF e > MAX_POLL_TIME THEN "timeout"
    ELSE "request"

\* The code that runs when the interval sleep is over, up to its next
\* await: pollForResult issues the status request; pollTask is at the top of
\* its loop.
AfterSleep(h, ab, e) ==
    IF h = "speech" THEN "request" ELSE pollTaskTop(ab, e)

\* The code that runs after a non-terminal status response, up to its next
\* await: pollForResult is at the top of its next iteration; pollTask
\* sleeps.
AfterAgain(h, a, max, ab) ==
    IF h = "speech" THEN pollForResultTop(a + 1, max, ab) ELSE "sleep"

\* AfterReturn that ends the call without fetching anything.
AfterReturnNoFetch(h, r) == "ok"

\* The code that runs after the poll has returned, up to its next await.
\* doGenerate fetches the audio; processRequest of Flux, Kling, Wan and
\* Vidu throws if the result has no artifact and fetches it otherwise;
\* processRequest of Midjourney goes on to the upscale actions.
AfterReturn(h, r) ==
    IF h = "midjourney" THEN "upscale"
    ELSE IF h # "speech" /\ IsNull(r.artifact) THEN "no-artifact"
    ELSE "download"

(* The errors the pollers throw. A message is the sequence of the pieces  *)
(* of its template; the status responses of the model carry no failure     *)
(* text of the upstream, so that `x || 'Unknown error'` is 'Unknown error'.*)

\* The identifier the submission returned.
TaskId == "task-1"

\* What a rejected fetch throws: the rejection itself.
Rejection(r) == IF r.kind = "abort" THEN <<"AbortError">> ELSE <<"fetch failed">>

\* pollForResult, and the APICallError of postJsonToApi's failed response
\* handler.
pollForResultMessage(why, r, max) ==
    CASE why = "aborted" /\ r.kind # "abort" -> <<"Request aborted">>
      [] why = "failed" -> <<"TTS task failed: ", TaskId>>
      [] why = "timeout" ->
            <<"TTS task timed out after ", ToString(max), " attempts: ", TaskId>>
      [] why = "http" -> <<"APICallError", ToString(r.code)>>
      [] OTHER -> Rejection(r)

\* pollTask of Flux and `No image generated` of its processRequest.
fluxMessage(why, r) ==
    CASE why = "aborted" /\ r.kind # "abort" -> <<"Task polling aborted">>
      [] why = "timeout" -> <<"Task polling timed out">>
      [] why = "http" -> <<"HTTP error! status: ", ToString(r.code)>>
      [] why = "failed" -> <<"Task failed with status: ", r.status>>
      [] why = "no-artifact" -> <<"No image generated">>
      [] OTHER -> Rejection(r)

\* pollTask of Kling O1.
klingMessage(why, r) ==
    CASE why = "aborted" /\ r.kind # "abort" -> <<"Task polling aborted">>
      [] why = "timeout" -> <<"Task polling timed out">>
      [] why = "http" -> <<"HTTP error! status: ", ToString(r.code), ", body: ", "">>
      [] why = "api" -> <<"API error: ", "Unknown error">>
      [] why = "failed" -> <<"Task failed: ", "Unknown error">>
      [] why = "no-artifact" -> <<"No images returned from Kling O1 API">>
      [] OTHER -> Rejection(r)

\* pollTask of Wan 2.6.
wanMessage(why, r) ==
    CASE why = "aborted" /\ r.kind # "abort" -> <<"Task polling aborted">>
      [] why = "timeout" -> <<"Task polling timed out">>
      [] why = "http" -> <<"HTTP error! status: ", ToString(r.code)>>
      [] why = "failed" -> <<"Task failed: ", "Unknown error">>
      [] why = "no-artifact" -> <<"No images returned from Wan2.6-Image API">>
      [] OTHER -> Rejection(r)

\* pollTask of Vidu.
viduMessage(why, r) ==
    CASE why = "aborted" /\ r.kind # "abort" -> <<"Task polling aborted">>
      [] why = "timeout" -> <<"Task polling timed out">>
      [] why = "http" -> <<"HTTP error! status: ", ToString(r.code)>>
      [] why = "failed" -> <<"Task failed: ", "Unknown error">>
      [] why = "no-artifact" -> <<"No image generated">>
      [] OTHER -> Rejection(r)

\* pollTask of Midjourney.
midjourneyMessage(why, r) ==
    CASE why = "aborted" /\ r.kind # "abort" -> <<"Task polling aborted">>
      [] why = "timeout" -> <<"Task polling timed out">>
      [] why = "http" -> <<"HTTP error! status: ", ToString(r.code)>>
      [] why = "failed" -> <<"Task failed: ", "Unknown error">>
      [] OTHER -> Rejection(r)

\* ErrorMessage with the exhausted budget reported as a failed task.
ErrorMessageTimeoutAsFailure(h, why, r, max) ==
    IF why = "timeout" THEN <<"Task failed: ", "Unknown error">>
    ELSE CASE h = "speech" -> pollForResultMessage(why, r, max)
           [] h = "flux" -> fluxMessage(why, r)
           [] h = "kling" -> klingMessage(why, r)
           [] h = "wan" -> wanMessage(why, r)
           [] h = "vidu" -> viduMessage(why, r)
           [] OTHER -> midjourneyMessage(why, r)

\* The message of the error with which the job of poller h ends when it
\* throws for `why`, r being the last response.
ErrorMessage(h, why, r, max) ==
    CASE h = "speech" -> pollForResultMessage(why, r, max)
      [] h = "flux" -> fluxMessage(why, r)
      [] h = "kling" -> klingMessage(why, r)
      [] h = "wan" -> wanMessage(why, r)
      [] h = "vidu" -> viduMessage(why, r)
      [] OTHER -> midjourneyMessage(why, r)

(* The abort signal of the call and the network calls that are given it. *)

NetworkCall(call, signal) == [call |-> call, signal |-> signal]

\* Whether the code of handler h hands options.abortSignal to the call:
\* `abortSignal` / `signal: abortSignal` in the submission and in the status
\* request of every handler, downloadAudio(audioUrl, options.abortSignal) in
\* the speech model, this.downloadImages(urls) in the image models.
PassesSignal(h, call) ==
    CASE call = "submit" -> TRUE
      [] call = "status" -> TRUE
      [] OTHER -> h = "speech"

(* The artifact fetch. *)

\* What the fetch of an artifact settles to.
DownloadResponse(kind, status, statusText, body) ==
    [kind |-> kind, status |-> status, statusText |-> statusText, body |-> body]

DownloadResponses(ab) ==
    { DownloadResponse("ok", 200, "OK", "bytes-of-U"),
      DownloadResponse("http", 404, "Not Found", "<html>"),
      DownloadResponse("network", 0, "", "") }
        \cup (IF ab THEN {DownloadResponse("abort", 0, "", "")} ELSE {})

\* downloadAudio with the body of a non-OK response returned as the audio.
downloadAudioIgnoresOk(d) ==
    IF d.kind \in {"network", "abort"}
    THEN [bytes |-> None, message |-> Rejection(d)]
    ELSE [bytes |-> Some(d.body), message |-> <<>>]

\* downloadAudio: const response = await fetchFn(audioUrl, ...);
\* if (!response.ok) throw ...; return new Uint8Array(arrayBuffer)
downloadAudio(d) ==
    IF d.kind \in {"network", "abort"}
    THEN [bytes |-> None, message |-> Rejection(d)]
    ELSE IF d.kind # "ok"
    THEN [bytes |-> None,
          message |-> <<"Failed to download audio: ", ToString(d.status), " ",
                        d.statusText>>]
    ELSE [bytes |-> Some(d.body), message |-> <<>>]

\* downloadImages of the image models' base class: raw bytes, or a failure
\* with the transport's status code and reason text.
downloadImages(d) ==
    IF d.kind \in {"network", "abort"}
    THEN [bytes |-> None, message |-> Rejection(d)]
    ELSE IF d.kind # "ok"
    THEN [bytes |-> None, message |-> <<ToString(d.status), " ", d.statusText>>]
    ELSE [bytes |-> Some(d.body), message |-> <<>>]

(* The job. *)

\* No stream is decoded while a job is polled.
NoStream ==
    /\ pc = "idle"
    /\ frames = <<>>
    /\ events = <<>>
    /\ toolCalls = InitialState.toolCalls
    /\ finishReason = InitialState.finishReason
    /\ usage = InitialState.usage
    /\ isFirstChunk = InitialState.isFirstChunk
    /\ isActiveReasoning = InitialState.isActiveReasoning
    /\ isActiveText = InitialState.isActiveText
    /\ genCount = InitialState.genCount

\* The state at the await of the submission: the status request that makes
\* the upstream accept the task is in flight.
PollInit ==
    /\ handler \in Handlers
    /\ phase = "submitted"
    /\ aborted = FALSE
    /\ elapsed = 0
    /\ attempt = 0
    /\ maxAttempts \in (IF handler = "speech" THEN 0..MaxAttempts ELSE {0})
    /\ statusRequests = 0
    /\ sleeps = 0
    /\ lastResponse = [kind |-> "none", code |-> 0, status |-> "", artifact |-> None]
    /\ outcome = "none"
    /\ downloads = <<>>
    /\ message = <<>>
    /\ result = None
    /\ lastDownload = [kind |-> "none", status |-> 0, statusText |-> "", body |-> ""]
    /\ submission = [kind |-> "none", status |-> "", audio_url |-> None]
    /\ calls = {NetworkCall("submit", PassesSignal(handler, "submit"))}
    /\ NoStream
    /\ NoCall
    /\ NoPair
    /\ NoMidjourney

\* The job goes on as `step` says: it throws, or it is suspended at the
\* sleep, at the status request it has just issued, or at the artifact fetch
\* it has just issued for the reference of the response r.
Proceed(step, r) ==
    /\ phase' = CASE step = "sleep" -> "sleeping"
                  [] step = "request" -> "waiting"
                  [] step = "download" -> "downloading"
                  [] step = "upscale" -> "upscaling"
                  [] OTHER -> "done"
    /\ outcome' = IF step \in {"sleep", "request", "download", "upscale"}
                  THEN outcome ELSE step
    /\ statusRequests' = IF step = "request" THEN statusRequests + 1
                         ELSE statusRequests
    /\ sleeps' = IF step = "sleep" THEN sleeps + 1 ELSE sleeps
    /\ downloads' = IF step = "download" THEN Append(downloads, Get(r.artifact))
                    ELSE downloads
    /\ message' = IF step \in {"sleep", "request", "download", "upscale"}
                  THEN message
                  ELSE ErrorMessage(handler, step, r, maxAttempts)
    /\ calls' = CASE step = "request" ->
                        calls \cup {NetworkCall("status", PassesSignal(handler, "status"))}
                  [] step = "download" ->
                        calls \cup {NetworkCall("download", PassesSignal(handler, "download"))}
                  [] OTHER -> calls
    /\ UNCHANGED <<result, lastDownload, submission>>

\* abortController.abort(), by the caller, while the job is suspended.
Abort ==
    /\ phase \in {"submitted", "sleeping", "waiting", "downloading"}
    /\ ~aborted
    /\ aborted' = TRUE
    /\ UNCHANGED <<handler, phase, elapsed, attempt, maxAttempts, statusRequests,
                   sleeps, lastResponse, outcome, downloads, message, result,
                   lastDownload, submission, calls>>
    /\ UNCHANGED <<vars, cvars, dvars, mvars>>

\* The submission is answered with a pending task: pollForResult / pollTask
\* is called and runs to its first await.
StartPoll ==
    /\ phase = "submitted"
    /\ Proceed(IF handler = "speech"
               THEN pollForResultTop(0, maxAttempts, aborted)
               ELSE pollTaskTop(aborted, 0),
               lastResponse)
    /\ UNCHANGED <<handler, aborted, elapsed, attempt, maxAttempts, lastResponse>>
    /\ UNCHANGED <<vars, cvars, dvars, mvars>>

\* The interval sleep is over.
SleepDone ==
    /\ phase = "sleeping"
    /\ elapsed' = elapsed + Interval(handler)
    /\ Proceed(AfterSleep(handler, aborted, elapsed'), lastResponse)
    /\ UNCHANGED <<handler, aborted, attempt, maxAttempts, lastResponse>>
    /\ UNCHANGED <<vars, cvars, dvars, mvars>>

\* The status request settles to r after `latency` milliseconds.
StatusSettled(r, latency) ==
    /\ phase = "waiting"
    /\ elapsed' = elapsed + latency
    /\ lastResponse' = r
    /\ LET verdict == Verdict(handler, r)
       IN IF verdict = "return"
          THEN /\ Proceed(AfterReturn(handler, r), r)
               /\ attempt' = attempt
          ELSE IF verdict = "again"
          THEN /\ Proceed(AfterAgain(handler, attempt, maxAttempts, aborted), r)
               /\ attempt' = IF handler = "speech" THEN attempt + 1 ELSE attempt
          ELSE /\ Proceed(verdict, r)
               /\ attempt' = attempt
    /\ UNCHANGED <<handler, aborted, maxAttempts>>
    /\ UNCHANGED <<vars, cvars, dvars, mvars>>

\* The artifact fetch settles to d: downloadAudio / downloadImages returns or
\* throws, and so does the call.
DownloadSettled(d) ==
    /\ phase = "downloading"
    /\ phase' = "done"
    /\ lastDownload' = d
    /\ LET fetched == IF handler = "speech" THEN downloadAudio(d)
                      ELSE downloadImages(d)
       IN /\ outcome' = IF IsNull(fetched.bytes) THEN "download-failed" ELSE "ok"
          /\ result' = fetched.bytes
          /\ message' = fetched.message
    /\ UNCHANGED <<handler, aborted, elapsed, attempt, maxAttempts, statusRequests,
                   sleeps, lastResponse, downloads, submission, calls>>
    /\ UNCHANGED <<vars, cvars, dvars, mvars>>

PollNext ==
    \/ Abort
    \/ StartPoll
    \/ SleepDone
    \/ \E r \in Responses(handler, aborted), latency \in {0, SlowLatency} :
          StatusSettled(r, latency)
    \/ \E d \in DownloadResponses(aborted) : DownloadSettled(d)

PollSpec == PollInit /\ [][PollNext]_<<vars, pvars, cvars, dvars, mvars>>

\* The same with the scheduling the runtime and the transport provide: a
\* call that can run does run, a timer that was set fires, and a request
\* that was issued settles (to a response or to a rejection).
PollFairSpec ==
    /\ PollSpec
    /\ WF_<<vars, pvars, cvars, dvars, mvars>>(StartPoll)
    /\ WF_<<vars, pvars, cvars, dvars, mvars>>(SleepDone)
    /\ WF_<<vars, pvars, cvars, dvars, mvars>>(\E r \in Responses(handler, aborted),
                             latency \in {0, SlowLatency} : StatusSettled(r, latency))
    /\ WF_<<vars, pvars, cvars, dvars, mvars>>(\E d \in DownloadResponses(aborted) : DownloadSettled(d))

----------------------------------------------------------------------------
(* doGenerate of the speech model from its submission on: the response to   *)
(* the TTS request decides between the poll, the download and a failure.   *)

\* A 2xx response to the TTS request.
SubmissionResponse(status, audio_url) ==
    [kind |-> "ok", status |-> status, audio_url |-> audio_url]

\* What the TTS request can settle to.
SubmissionResponses ==
    { SubmissionResponse(status, url) :
        status \in {"pending", "processing", "completed", "failed"},
        url \in {None, Some("U")} }
      \cup {[kind |-> "http", status |-> "", audio_url |-> None]}

\* doGenerateDispatch that polls for a task that is being processed.
doGenerateDispatchPollsProcessing(s) ==
    IF s.kind = "http" THEN "http"
    ELSE IF s.status \in {"pending", "processing"} THEN "poll"
    ELSE IF s.status = "completed" /\ ~IsNull(s.audio_url) THEN "download"
    ELSE IF s.status = "failed" THEN "generation-failed"
    ELSE "unexpected"

\* doGenerate: if (responseBody.status === 'pending') ... else if
\* (responseBody.status === 'completed' && responseBody.audio_url) ...
\* else if (responseBody.status === 'failed') throw ... else throw ...
doGenerateDispatch(s) ==
    IF s.kind = "http" THEN "http"
    ELSE IF s.status = "pending" THEN "poll"
    ELSE IF s.status = "completed" /\ ~IsNull(s.audio_url) THEN "download"
    ELSE IF s.status = "failed" THEN "generation-failed"
    ELSE "unexpected"

\* The errors doGenerate throws on the submission response.
doGenerateMessage(why, s) ==
    CASE why = "generation-failed" -> <<"TTS generation failed: ", TaskId>>
      [] why = "unexpected" -> <<"Unexpected TTS response status: ", s.status>>
      [] OTHER -> <<"APICallError", "500">>

\* doGenerate is at the await of the TTS request.
DispatchInit ==
    /\ handler = "speech"
    /\ phase = "submitting"
    /\ aborted = FALSE
    /\ elapsed = 0
    /\ attempt = 0
    /\ maxAttempts \in 0..MaxAttempts
    /\ statusRequests = 0
    /\ sleeps = 0
    /\ lastResponse = [kind |-> "none", code |-> 0, status |-> "", artifact |-> None]
    /\ outcome = "none"
    /\ downloads = <<>>
    /\ message = <<>>
    /\ result = None
    /\ lastDownload = [kind |-> "none", status |-> 0, statusText |-> "", body |-> ""]
    /\ submission = [kind |-> "none", status |-> "", audio_url |-> None]
    /\ calls = {NetworkCall("submit", PassesSignal("speech", "submit"))}
    /\ NoStream
    /\ NoCall
    /\ NoPair
    /\ NoMidjourney

\* The TTS request settles to s: doGenerate runs to its next await, in
\* pollForResult or in downloadAudio, or throws.
SubmissionSettled(s) ==
    /\ phase = "submitting"
    /\ submission' = s
    /\ LET way == doGenerateDispatch(s)
           step == IF way = "poll"
                   THEN pollForResultTop(0, maxAttempts, aborted)
                   ELSE way
       IN /\ phase' = CASE step = "request" -> "waiting"
                        [] step = "download" -> "downloading"
                        [] OTHER -> "done"
          /\ outcome' = IF step \in {"request", "download"} THEN outcome ELSE step
          /\ statusRequests' = IF step = "request" THEN statusRequests + 1
                               ELSE statusRequests
          /\ downloads' = IF step = "download" THEN Append(downloads, Get(s.audio_url))
                          ELSE downloads
          /\ message' = IF step \in {"request", "download"} THEN message
                        ELSE IF way = "poll"
                        THEN ErrorMessage("speech", step, lastResponse, maxAttempts)
                        ELSE doGenerateMessage(way, s)
          /\ calls' = CASE step = "request" ->
                             calls \cup {NetworkCall("status", PassesSignal("speech", "status"))}
                        [] step = "download" ->
                             calls \cup {NetworkCall("download", PassesSignal("speech", "download"))}
                        [] OTHER -> calls
    /\ UNCHANGED <<handler, aborted, elapsed, attempt, maxAttempts, sleeps,
                   lastResponse, result, lastDownload>>
    /\ UNCHANGED <<vars, cvars, dvars, mvars>>

DispatchNext ==
    \/ \E s \in SubmissionResponses : SubmissionSettled(s)
    \/ Abort
    \/ SleepDone
    \/ \E r \in Responses(handler, aborted), latency \in {0, SlowLatency} :
          StatusSettled(r, latency)
    \/ \E d \in DownloadResponses(aborted) : DownloadSettled(d)

DispatchSpec == DispatchInit /\ [][DispatchNext]_<<vars, pvars, cvars, dvars, mvars>>

----------------------------------------------------------------------------
(* Warnings: the construction of a request (getArgs and prepareTools of the *)
(* language model, processRequest of the Flux image handler) and the       *)
(* assembly of the result that carries them.                               *)

\* Most tools in a call.
MaxTools == 2
\* Most events enqueued after stream-start.
MaxEnqueued == 2

Warning(feature, details) ==
    [type |-> "unsupported", feature |-> feature, details |-> details]

Tools ==
    { [type |-> "function", name |-> "f"],
      [type |-> "provider", name |-> "p"],
      [type |-> "provider", name |-> "q"] }

ToolLists == UNION {[1..k -> Tools] : k \in 0..MaxTools}

LanguageOptions == [topK : {None, Some(40)}, tools : ToolLists]

ImageOptions ==
    [n : {None, Some(1), Some(2)},
     size : {None, Some("1024x1024")},
     aspectRatio : {None, Some("16:9")}]

\* The call has been made and its code is at its first statement.
CallInit ==
    /\ callKind \in {"generate", "stream", "image"}
    /\ options \in (IF callKind = "image" THEN ImageOptions ELSE LanguageOptions)
    /\ cpc = (IF callKind = "image" THEN "n" ELSE "topK")
    /\ warnings = <<>>
    /\ toolWarnings = <<>>
    /\ toolIndex = 0
    /\ pushed = <<>>
    /\ resultWarnings = None
    /\ enqueued = <<>>
    /\ NoStream
    /\ NoJob
    /\ NoPair
    /\ NoMidjourney

\* warnings.push(w)
Push(w) ==
    /\ warnings' = Append(warnings, w)
    /\ pushed' = Append(pushed, w)

PushIf(cond, w) ==
    IF cond THEN Push(w) ELSE UNCHANGED <<warnings, pushed>>

\* getArgs: if (topK != null) warnings.push(...); then prepareTools is
\* entered.
CheckTopK ==
    /\ cpc = "topK"
    /\ PushIf(~IsNull(options.topK), Warning("topK", None))
    /\ cpc' = "prepareTools"
    /\ toolIndex' = 1
    /\ UNCHANGED <<callKind, options, toolWarnings, resultWarnings, enqueued>>
    /\ UNCHANGED <<vars, pvars, dvars, mvars>>

\* prepareTools: one iteration of `for (const tool of tools)`.
PrepareTool ==
    /\ cpc = "prepareTools"
    /\ toolIndex <= Len(options.tools)
    /\ LET tool == options.tools[toolIndex]
           w == Warning("provider tool: " \o tool.name, None)
       IN IF tool.type = "provider"
          THEN /\ toolWarnings' = Append(toolWarnings, w)
               /\ pushed' = Append(pushed, w)
          ELSE UNCHANGED <<toolWarnings, pushed>>
    /\ toolIndex' = toolIndex + 1
    /\ UNCHANGED <<callKind, options, cpc, warnings, resultWarnings, enqueued>>
    /\ UNCHANGED <<vars, pvars, dvars, mvars>>

\* getArgsWarnings with the tool warnings first.
getArgsWarningsToolsFirst(w, tw) == tw \o w

\* warnings: [...warnings, ...toolWarnings]
getArgsWarnings(w, tw) == w \o tw

\* prepareTools and getArgs return; doGenerate / doStream issues the request.
GetArgsReturn ==
    /\ cpc = "prepareTools"
    /\ toolIndex > Len(options.tools)
    /\ warnings' = getArgsWarnings(warnings, toolWarnings)
    /\ cpc' = "request"
    /\ UNCHANGED <<callKind, options, toolWarnings, toolIndex, pushed,
                   resultWarnings, enqueued>>
    /\ UNCHANGED <<vars, pvars, dvars, mvars>>

\* doGenerate: the request settles; return { content, ..., warnings } unless
\* it failed.
DoGenerateReturn(ok) ==
    /\ cpc = "request"
    /\ callKind = "generate"
    /\ cpc' = IF ok THEN "returned" ELSE "threw"
    /\ resultWarnings' = IF ok THEN Some(warnings) ELSE resultWarnings
    /\ UNCHANGED <<callKind, options, warnings, toolWarnings, toolIndex, pushed,
                   enqueued>>
    /\ UNCHANGED <<vars, pvars, dvars, mvars>>

\* doStream: the request settles; the transform stream is constructed and
\* its start() runs: controller.enqueue({ type: 'stream-start', warnings }).
DoStreamStart(ok) ==
    /\ cpc = "request"
    /\ callKind = "stream"
    /\ cpc' = IF ok THEN "streaming" ELSE "threw"
    /\ enqueued' = IF ok THEN <<[type |-> "stream-start", warnings |-> warnings]>>
                   ELSE enqueued
    /\ UNCHANGED <<callKind, options, warnings, toolWarnings, toolIndex, pushed,
                   resultWarnings>>
    /\ UNCHANGED <<vars, pvars, dvars, mvars>>

\* transform / flush: controller.enqueue of an event of type t; the finish
\* event of flush is the last.
Enqueue(t) ==
    /\ cpc = "streaming"
    /\ Len(enqueued) <= MaxEnqueued
    /\ enqueued' = Append(enqueued, [type |-> t])
    /\ cpc' = IF t = "finish" THEN "returned" ELSE cpc
    /\ UNCHANGED <<callKind, options, warnings, toolWarnings, toolIndex, pushed,
                   resultWarnings>>
    /\ UNCHANGED <<vars, pvars, dvars, mvars>>

\* processRequest: if (n != null && n > 1) warnings.push(...)
CheckN ==
    /\ cpc = "n"
    /\ PushIf(~IsNull(options.n) /\ Get(options.n) > 1,
              Warning("n", Some("generates one image per request")))
    /\ cpc' = "size"
    /\ UNCHANGED <<callKind, options, toolWarnings, toolIndex, resultWarnings,
                   enqueued>>
    /\ UNCHANGED <<vars, pvars, dvars, mvars>>

\* processRequest: validateDimensionsMultipleOf32(parsedSize, warnings, ...)
\* for a size, else aspectRatioToSize(aspectRatio, 1024, warnings) for an
\* aspect ratio; either helper is handed the array and may push (`adjusted`).
CheckSize(adjusted) ==
    /\ cpc = "size"
    /\ IF ~IsNull(options.size)
       THEN PushIf(adjusted, Warning("size", Some("dimensions adjusted")))
       ELSE IF ~IsNull(options.aspectRatio)
       THEN PushIf(adjusted, Warning("aspectRatio", Some("aspect ratio adjusted")))
       ELSE UNCHANGED <<warnings, pushed>>
    /\ cpc' = "both"
    /\ UNCHANGED <<callKind, options, toolWarnings, toolIndex, resultWarnings,
                   enqueued>>
    /\ UNCHANGED <<vars, pvars, dvars, mvars>>

\* processRequest: if (size != null && aspectRatio != null)
\* warnings.push(...); then the task is submitted.
CheckBoth ==
    /\ cpc = "both"
    /\ PushIf(~IsNull(options.size) /\ ~IsNull(options.aspectRatio),
              Warning("aspectRatio", Some("Size will be used and aspectRatio will be ignored.")))
    /\ cpc' = "request"
    /\ UNCHANGED <<callKind, options, toolWarnings, toolIndex, resultWarnings,
                   enqueued>>
    /\ UNCHANGED <<vars, pvars, dvars, mvars>>

\* processRequest: submission, poll and download are over;
\* return { images, warnings, response } unless one of them failed.
ProcessRequestReturn(ok) ==
    /\ cpc = "request"
    /\ callKind = "image"
    /\ cpc' = IF ok THEN "returned" ELSE "threw"
    /\ resultWarnings' = IF ok THEN Some(warnings) ELSE resultWarnings
    /\ UNCHANGED <<callKind, options, warnings, toolWarnings, toolIndex, pushed,
                   enqueued>>
    /\ UNCHANGED <<vars, pvars, dvars, mvars>>

CallNext ==
    \/ CheckTopK
    \/ PrepareTool
    \/ GetArgsReturn
    \/ \E ok \in BOOLEAN : DoGenerateReturn(ok)
    \/ \E ok \in BOOLEAN : DoStreamStart(ok)
    \/ \E t \in {"response-metadata", "text-delta", "finish"} : Enqueue(t)
    \/ CheckN
    \/ \E adjusted \in BOOLEAN : CheckSize(adjusted)
    \/ CheckBoth
    \/ \E ok \in BOOLEAN : ProcessRequestReturn(ok)

CallSpec == CallInit /\ [][CallNext]_<<vars, pvars, cvars, dvars, mvars>>

----------------------------------------------------------------------------
(* Concurrent calls: two doStream calls whose frames arrive interleaved, or *)
(* two speech jobs whose timers and responses arrive interleaved.           *)

Callers == {1, 2}

\* Most frames fed to each of two concurrent streams.
MaxPairFrames == 2
\* maxAttempts of each of two concurrent jobs.
MaxPairAttempts == 2

PairFrames ==
    { Failed, FinalFrame, MixedFrame,
      WithDelta([BaseDelta EXCEPT !.reasoning = Some(<<"Let">>)]),
      Ok([BaseValue EXCEPT !.choices = <<Choice(Some("length"), None)>>]) }

\* What doStream returns: the stream has enqueued stream-start, and the
\* variables declared by this invocation have their initial values.
NewStream ==
    [pc |-> "streaming", frames |-> <<>>, st |-> InitialState,
     events |-> <<[type |-> "stream-start"]>>]

\* ClosureOf with the variables at module level: one set for every call.
ClosureOfShared(ss, c) == ss[1].st

\* The variables the transform stream of call c closes over: those declared
\* by its own invocation of doStream.
ClosureOf(ss, c) == ss[c].st

\* The state of pollForResult(taskId, options) when it is called.
NewJob ==
    [phase |-> "submitted", aborted |-> FALSE, attempt |-> 0,
     maxAttempts |-> MaxPairAttempts, statusRequests |-> 0, sleeps |-> 0,
     outcome |-> "none", inputs |-> <<>>]

PairResponses(ab) ==
    { StatusResponse("pending", None), StatusResponse("failed", None),
      StatusResponse("succeeded", Some("U")), HttpError(500) }
        \cup (IF ab THEN {AbortError} ELSE {})

\* pollForResult goes on as `step` says (see Proceed).
ProceedJob(j, step) ==
    [j EXCEPT
       !.phase = CASE step = "sleep" -> "sleeping"
                   [] step = "request" -> "waiting"
                   [] step = "download" -> "downloading"
                   [] OTHER -> "done",
       !.outcome = IF step \in {"sleep", "request", "download"} THEN @ ELSE step,
       !.statusRequests = IF step = "request" THEN @ + 1 ELSE @,
       !.sleeps = IF step = "sleep" THEN @ + 1 ELSE @]

\* One step of a speech job on the input `in`: the caller triggers its abort
\* signal, the poll starts, its sleep is over, or its status request settles.
pollForResultStep(j, in) ==
    LET k == [j EXCEPT !.inputs = Append(@, in)] IN
    CASE in.kind = "cancel" -> [k EXCEPT !.aborted = TRUE]
      [] in.kind = "start" ->
            ProceedJob(k, pollForResultTop(0, k.maxAttempts, k.aborted))
      [] in.kind = "wake" -> ProceedJob(k, AfterSleep("speech", k.aborted, 0))
      [] OTHER ->
            LET verdict == Verdict("speech", in.response) IN
            IF verdict = "return"
            THEN ProceedJob(k, AfterReturn("speech", in.response))
            ELSE IF verdict = "again"
            THEN ProceedJob([k EXCEPT !.attempt = @ + 1],
                            AfterAgain("speech", k.attempt, k.maxAttempts, k.aborted))
            ELSE ProceedJob(k, verdict)

\* The inputs a job can have next.
JobInputs(j) ==
    (IF j.phase \in {"submitted", "sleeping", "waiting"} /\ ~j.aborted
     THEN {[kind |-> "cancel"]} ELSE {})
    \cup (IF j.phase = "submitted" THEN {[kind |-> "start"]} ELSE {})
    \cup (IF j.phase = "sleeping" THEN {[kind |-> "wake"]} ELSE {})
    \cup (IF j.phase = "waiting"
          THEN {[kind |-> "settle", response |-> r] : r \in PairResponses(j.aborted)}
          ELSE {})

PairInit ==
    /\ mode \in {"decode", "poll"}
    /\ NoMidjourney
    /\ streams = (IF mode = "decode" THEN [c \in Callers |-> NewStream] ELSE <<>>)
    /\ jobs = (IF mode = "poll" THEN [c \in Callers |-> NewJob] ELSE <<>>)
    /\ NoStream
    /\ NoJob
    /\ NoCall

\* transform(chunk, controller) of the stream of call c.
PairTransform(c, chunk) ==
    /\ mode = "decode"
    /\ streams[c].pc = "streaming"
    /\ Len(streams[c].frames) < MaxPairFrames
    /\ LET st == transform(ClosureOf(streams, c), chunk)
       IN streams' = [streams EXCEPT
                        ![c] = [pc |-> "streaming",
                                frames |-> Append(@.frames, chunk),
                                st |-> [st EXCEPT !.out = <<>>],
                                events |-> @.events \o st.out]]
    /\ UNCHANGED <<mode, jobs>>
    /\ UNCHANGED <<vars, pvars, cvars, mvars>>

\* flush(controller) of the stream of call c.
PairFlush(c) ==
    /\ mode = "decode"
    /\ streams[c].pc = "streaming"
    /\ LET st == ClosureOf(streams, c)
       IN streams' = [streams EXCEPT
                        ![c].pc = "done",
                        ![c].events = @ \o FlushOut(st.isActiveReasoning,
                                                    st.isActiveText, st.toolCalls,
                                                    st.finishReason, st.usage)]
    /\ UNCHANGED <<mode, jobs>>
    /\ UNCHANGED <<vars, pvars, cvars, mvars>>

\* The job of call c has the input `in`.
PairPoll(c) ==
    /\ mode = "poll"
    /\ \E in \in JobInputs(jobs[c]) :
          jobs' = [jobs EXCEPT ![c] = pollForResultStep(@, in)]
    /\ UNCHANGED <<mode, streams>>
    /\ UNCHANGED <<vars, pvars, cvars, mvars>>

PairNext ==
    \/ \E c \in Callers, chunk \in PairFrames : PairTransform(c, chunk)
    \/ \E c \in Callers : PairFlush(c)
    \/ \E c \in Callers : PairPoll(c)

PairSpec == PairInit /\ [][PairNext]_<<vars, pvars, cvars, dvars, mvars>>

----------------------------------------------------------------------------
(* MidjourneyHandler.processRequest: the imagine task is submitted and     *)
(* polled, then one upscale task per image is submitted and polled, all in *)
(* parallel, then the images are downloaded.                                *)

\* The answers "not yet" one task is given at once: a later one comes slowly
\* enough for the budget of the task to run out.
MaxStatusRequests == 2

\* The option n of the calls: one image (not given, 0, 1) or two.
Requested == {None, Some(0), Some(1), Some(2)}

\* The buttons of a finished imagine task: U1..U4, or U1 alone.
ButtonSets == {1..4, {1}}

\* What postJsonToApi settles to: the response, or a rejection (a failed
\* response, a failed fetch, the abort).
SubmitResponses(ab) == {"ok", "rejected"} \cup (IF ab THEN {"aborted"} ELSE {})

\* How long a status request takes.
Latencies == {0, 2 * SlowLatency}

\* Math.min(n || 1, 4)
numImages(n) ==
    LET m == IF IsNull(n) \/ Get(n) = 0 THEN 1 ELSE Get(n)
    IN IF m < 4 THEN m ELSE 4

\* The signal pollTask and upscaleImage are given, had processRequest
\* aborted it when it threw.
signalOfLinked(ab, th) == ab \/ th # "none"

\* The signal pollTask and upscaleImage are given: the abortSignal of the
\* call, whatever has been thrown.
signalOf(ab, th) == ab

\* pollTask from the top of an iteration, at e after its start, to the next
\* await.
pollTaskIteration(t, ab, e) ==
    LET step == pollTaskTop(ab, e)
    IN [t EXCEPT !.elapsed = e,
                 !.phase = IF step = "request" THEN "waiting" ELSE "done",
                 !.outcome = IF step = "request" THEN @ ELSE step,
                 !.statusRequests = IF step = "request" THEN @ + 1 ELSE @]

\* pollTask from the answer to its status request to the next await.
pollTaskSettled(t, r, latency) ==
    LET verdict == midjourneyVerdict(r)
    IN [t EXCEPT !.elapsed = @ + latency,
                 !.phase = IF verdict = "again" THEN "sleeping" ELSE "done",
                 !.outcome = IF verdict = "again" THEN @
                             ELSE IF verdict = "return" THEN "SUCCESS"
                             ELSE verdict,
                 !.imageUrl = IF verdict = "return" THEN r.artifact ELSE @]

\* From the answer to the submission to the next await: pollTask starts.
submitSettled(t, resp, ab) ==
    IF resp = "ok" THEN pollTaskIteration(t, ab, 0)
    ELSE [t EXCEPT !.phase = "done", !.outcome = resp]

\* upscaleImage(taskId, response, abortSignal, i) to its first await. A
\* request on a signal that is aborted already is rejected unsent.
upscaleImage(i, b, ab) ==
    IF i \notin b THEN [NoTask EXCEPT !.phase = "done", !.outcome = "no-button"]
    ELSE IF ab THEN [NoTask EXCEPT !.phase = "done", !.outcome = "aborted"]
    ELSE [NoTask EXCEPT !.phase = "submitting"]

Fulfilled(t) == t.phase = "done" /\ t.outcome = "SUCCESS"

Rejected(t) == t.phase = "done" /\ t.outcome # "SUCCESS"

\* Promise.all, had it been Promise.any.
PromiseAny(ps) ==
    IF \E i \in DOMAIN ps : Fulfilled(ps[i]) THEN "fulfilled"
    ELSE IF \A i \in DOMAIN ps : Rejected(ps[i]) THEN "rejected"
    ELSE "pending"

\* Promise.all(upscalePromises)
PromiseAll(ps) ==
    IF \E i \in DOMAIN ps : Rejected(ps[i]) THEN "rejected"
    ELSE IF \A i \in DOMAIN ps : Fulfilled(ps[i]) THEN "fulfilled"
    ELSE "pending"

\* finalResults: what the promise of the upscales is fulfilled with.
finalResults(ps) == SelectSeq(ps, LAMBDA t : Fulfilled(t))

\* processRequest from the settling of the promise of the upscales, for the
\* reason `why` when it is rejected, to its next await.
AwaitUpscales(ps, why) ==
    IF processRequest # "upscale" /\ processRequest # "imagine"
    THEN UNCHANGED <<processRequest, thrown, imageUrls>>
    ELSE CASE PromiseAll(ps) = "rejected" ->
                 /\ processRequest' = "thrown"
                 /\ thrown' = why
                 /\ imageUrls' = imageUrls
           [] PromiseAll(ps) = "fulfilled" ->
                 LET results == finalResults(ps)
                 IN IF \E i \in DOMAIN results : ~Truthy(results[i].imageUrl)
                    THEN /\ processRequest' = "thrown"
                         /\ thrown' = "no-image-url"
                         /\ imageUrls' = imageUrls
                    ELSE /\ processRequest' = "download"
                         /\ thrown' = thrown
                         /\ imageUrls' = [i \in DOMAIN results |->
                                             Get(results[i].imageUrl)]
           [] OTHER ->
                 /\ processRequest' = "upscale"
                 /\ UNCHANGED <<thrown, imageUrls>>

\* The first of the promises to have been rejected, when they are made.
FirstRejection(ps) ==
    LET i == CHOOSE j \in DOMAIN ps :
                /\ Rejected(ps[j])
                /\ \A k \in DOMAIN ps : Rejected(ps[k]) => j <= k
    IN IF \E j \in DOMAIN ps : Rejected(ps[j]) THEN ps[i].outcome ELSE "none"

\* A task at its cap of quick answers is answered for good, or slowly.
Answerable(t, r, latency) ==
    (midjourneyVerdict(r) = "again" /\ t.statusRequests >= MaxStatusRequests)
        => t.elapsed + latency + POLL_INTERVAL > MAX_POLL_TIME

MidjourneyInit ==
    /\ requested \in Requested
    /\ abortSignal = FALSE
    /\ initialResult = [NoTask EXCEPT !.phase = "submitting"]
    /\ buttons = {}
    /\ upscalePromises = <<>>
    /\ processRequest = "imagine"
    /\ thrown = "none"
    /\ imageUrls = <<>>
    /\ NoStream
    /\ NoJob
    /\ NoCall
    /\ NoPair

\* The caller aborts the signal while something of the call still runs.
MidjourneyAbort ==
    /\ ~abortSignal
    /\ \/ processRequest \in {"imagine", "upscale", "download"}
       \/ \E i \in DOMAIN upscalePromises : upscalePromises[i].phase # "done"
    /\ abortSignal' = TRUE
    /\ UNCHANGED <<requested, initialResult, buttons, upscalePromises,
                   processRequest, thrown, imageUrls>>
    /\ UNCHANGED <<vars, pvars, cvars, dvars>>

\* processRequest when pollTask of the imagine task has thrown.
ImagineThrown(t) ==
    /\ processRequest' = IF Rejected(t) THEN "thrown" ELSE processRequest
    /\ thrown' = IF Rejected(t) THEN t.outcome ELSE thrown

\* The submission of the imagine task settles.
ImagineSubmitted(resp) ==
    /\ initialResult.phase = "submitting"
    /\ initialResult' = submitSettled(initialResult, resp,
                                      signalOf(abortSignal, thrown))
    /\ ImagineThrown(initialResult')
    /\ UNCHANGED <<requested, abortSignal, buttons, upscalePromises, imageUrls>>
    /\ UNCHANGED <<vars, pvars, cvars, dvars>>

\* The interval sleep of the imagine poll is over.
ImagineSlept ==
    /\ initialResult.phase = "sleeping"
    /\ initialResult' = pollTaskIteration(initialResult,
                                          signalOf(abortSignal, thrown),
                                          initialResult.elapsed + POLL_INTERVAL)
    /\ ImagineThrown(initialResult')
    /\ UNCHANGED <<requested, abortSignal, buttons, upscalePromises, imageUrls>>
    /\ UNCHANGED <<vars, pvars, cvars, dvars>>

\* The status request of the imagine poll settles. On SUCCESS pollTask
\* returns, and processRequest calls upscaleImage once per image and awaits
\* them all.
ImagineSettled(r, latency, b) ==
    /\ initialResult.phase = "waiting"
    /\ Answerable(initialResult, r, latency)
    /\ initialResult' = pollTaskSettled(initialResult, r, latency)
    /\ IF Fulfilled(initialResult')
       THEN /\ buttons' = b
            /\ upscalePromises' =
                  [i \in 1..numImages(requested) |->
                      upscaleImage(i, b, signalOf(abortSignal, thrown))]
            /\ AwaitUpscales(upscalePromises', FirstRejection(upscalePromises'))
       ELSE /\ ImagineThrown(initialResult')
            /\ UNCHANGED <<buttons, upscalePromises, imageUrls>>
    /\ UNCHANGED <<requested, abortSignal>>
    /\ UNCHANGED <<vars, pvars, cvars, dvars>>

\* The submission of the upscale task i settles.
UpscaleSubmitted(i, resp) ==
    /\ i \in DOMAIN upscalePromises
    /\ upscalePromises[i].phase = "submitting"
    /\ upscalePromises' =
          [upscalePromises EXCEPT
              ![i] = submitSettled(@, resp, signalOf(abortSignal, thrown))]
    /\ AwaitUpscales(upscalePromises', upscalePromises'[i].outcome)
    /\ UNCHANGED <<requested, abortSignal, initialResult, buttons>>
    /\ UNCHANGED <<vars, pvars, cvars, dvars>>

\* The interval sleep of the poll of the upscale task i is over.
UpscaleSlept(i) ==
    /\ i \in DOMAIN upscalePromises
    /\ upscalePromises[i].phase = "sleeping"
    /\ upscalePromises' =
          [upscalePromises EXCEPT
              ![i] = pollTaskIteration(@, signalOf(abortSignal, thrown),
                                       @.elapsed + POLL_INTERVAL)]
    /\ AwaitUpscales(upscalePromises', upscalePromises'[i].outcome)
    /\ UNCHANGED <<requested, abortSignal, initialResult, buttons>>
    /\ UNCHANGED <<vars, pvars, cvars, dvars>>

\* The status request of the poll of the upscale task i settles.
UpscaleSettled(i, r, latency) ==
    /\ i \in DOMAIN upscalePromises
    /\ upscalePromises[i].phase = "waiting"
    /\ Answerable(upscalePromises[i], r, latency)
    /\ upscalePromises' =
          [upscalePromises EXCEPT ![i] = pollTaskSettled(@, r, latency)]
    /\ AwaitUpscales(upscalePromises', upscalePromises'[i].outcome)
    /\ UNCHANGED <<requested, abortSignal, initialResult, buttons>>
    /\ UNCHANGED <<vars, pvars, cvars, dvars>>

\* downloadImages(imageUrls) settles; it is not given the signal.
ImagesDownloaded(d) ==
    /\ processRequest = "download"
    /\ LET fetched == downloadImages(d)
       IN /\ processRequest' = IF IsNull(fetched.bytes) THEN "thrown" ELSE "returned"
          /\ thrown' = IF IsNull(fetched.bytes) THEN "download-failed" ELSE thrown
    /\ UNCHANGED <<requested, abortSignal, initialResult, buttons,
                   upscalePromises, imageUrls>>
    /\ UNCHANGED <<vars, pvars, cvars, dvars>>

MidjourneyNext ==
    \/ MidjourneyAbort
    \/ \E resp \in SubmitResponses(abortSignal) : ImagineSubmitted(resp)
    \/ ImagineSlept
    \/ \E r \in Responses("midjourney", abortSignal), latency \in Latencies,
          b \in ButtonSets : ImagineSettled(r, latency, b)
    \/ \E i \in DOMAIN upscalePromises, resp \in SubmitResponses(abortSignal) :
          UpscaleSubmitted(i, resp)
    \/ \E i \in DOMAIN upscalePromises : UpscaleSlept(i)
    \/ \E i \in DOMAIN upscalePromises, r \in Responses("midjourney", abortSignal),
          latency \in Latencies : UpscaleSettled(i, r, latency)
    \/ \E d \in DownloadResponses(FALSE) : ImagesDownloaded(d)

MidjourneySpec ==
    MidjourneyInit /\ [][MidjourneyNext]_<<vars, pvars, cvars, dvars, mvars>>

----------------------------------------------------------------------------
(* Reading the job *)

allvars == <<vars, pvars, cvars, dvars, mvars>>

\* The poll is over: it threw, or it returned and its caller went on.
PollOver == phase \in {"done", "downloading", "upscaling"}

Observed(r) == lastResponse = r

\* The pollers whose caller fetches the artifact as soon as the poll returns.
Fetching == Handlers \ {"midjourney"}

----------------------------------------------------------------------------
\* C14: a poller that has observed the status failed has stopped: the call
\* has failed for that reason, it is suspended at no sleep and no request,
\* and it has fetched no artifact.
FailedStatusStopsPolling ==
    Observed(StatusResponse("failed", None)) =>
        /\ phase = "done"
        /\ outcome = "failed"
        /\ downloads = <<>>
        /\ ~ENABLED (SleepDone \/ StartPoll)

\* pollForResult observed failed on its second status request.
FailedStatusStopsPollingWitness ==
    /\ handler = "speech"
    /\ Observed(StatusResponse("failed", None))
    /\ statusRequests = 2
    /\ sleeps = 1
    /\ outcome = "failed"

----------------------------------------------------------------------------
\* C15: from the step on which the status succeeded with artifact reference
\* U is observed, no status request is issued and no sleep begun, and the
\* references fetched are U, once; the successful request is the k-th, one
\* more than the sleeps, one sleep having followed each of the k - 1
\* non-terminal responses (for k = 2: two status requests, then one fetch).
SuccessFetchesOnce ==
    [][ (/\ handler \in Fetching
         /\ lastResponse'.kind = "ok"
         /\ lastResponse'.status = "succeeded"
         /\ ~IsNull(lastResponse'.artifact)) =>
          /\ statusRequests' = statusRequests
          /\ sleeps' = sleeps
          /\ statusRequests' = sleeps' + 1
          /\ downloads' = <<Get(lastResponse'.artifact)>>
          /\ phase' \in {"downloading", "done"}
          /\ outcome' \in {"none", "ok", "download-failed"}
      ]_allvars

\* pollForResult observed succeeded with U on its second status request and
\* the fetch of U has settled.
SuccessFetchesOnceWitness ==
    /\ handler = "speech"
    /\ Observed(StatusResponse("succeeded", Some("U")))
    /\ statusRequests = 2
    /\ downloads = <<"U">>
    /\ outcome = "ok"

----------------------------------------------------------------------------
\* C16: pollForResult with a budget of N attempts never issues more than N
\* status requests, and once the N-th has settled to a non-terminal status
\* (at once, for N = 0) it has failed with the timeout, after exactly N
\* requests.
BudgetOfAttempts ==
    handler = "speech" =>
        /\ statusRequests <= maxAttempts
        /\ outcome = "timeout" => statusRequests = maxAttempts
        /\ (/\ phase \notin {"submitted", "waiting"}
            /\ statusRequests = maxAttempts
            /\ (maxAttempts = 0 \/ pollForResultVerdict(lastResponse) = "again")) =>
              /\ phase = "done"
              /\ outcome = "timeout"

\* The largest budget, used up.
BudgetOfAttemptsWitness ==
    /\ handler = "speech"
    /\ maxAttempts = MaxAttempts
    /\ statusRequests = MaxAttempts
    /\ sleeps = MaxAttempts - 1
    /\ outcome = "timeout"

\* The budget of no attempt at all.
BudgetOfNoAttempt ==
    /\ handler = "speech"
    /\ maxAttempts = 0
    /\ statusRequests = 0
    /\ outcome = "timeout"

----------------------------------------------------------------------------
\* C17: no sleep has begun before the first status request; a poll that is
\* over after its first request has not slept; and a poll that ended on a
\* terminal response has slept only between its requests, not after the
\* last.
NoSleepAroundTerminal ==
    /\ statusRequests = 0 => sleeps = 0
    /\ (PollOver /\ statusRequests = 1 /\ Verdict(handler, lastResponse) # "again") =>
          sleeps = 0
    /\ (PollOver /\ statusRequests > 0 /\ Verdict(handler, lastResponse) # "again") =>
          sleeps = statusRequests - 1

\* pollForResult and the Flux pollTask on a task that is terminal at the
\* first query.
NoSleepAroundTerminalWitness ==
    /\ handler \in {"speech", "flux"}
    /\ statusRequests = 1
    /\ Observed(StatusResponse("succeeded", Some("U")))
    /\ phase = "downloading"
    /\ sleeps = 0

----------------------------------------------------------------------------
\* C18 as stated: once the abort signal is triggered no poller issues a
\* status request.
NoRequestOnceAborted ==
    [][ aborted => statusRequests' = statusRequests ]_allvars

\* What holds: the pollTask loops issue no status request once the signal is
\* triggered, and pollForResult issues none once the signal is triggered
\* unless it is triggered during the interval sleep.
NoRequestOnceAbortedButAfterSleep ==
    [][ (aborted /\ ~(handler = "speech" /\ phase = "sleeping")) =>
            statusRequests' = statusRequests ]_allvars

----------------------------------------------------------------------------
\* C19 as stated: a poller that has observed succeeded without an artifact
\* reference has neither returned nor failed on it (it sleeps and polls
\* again, unless its budget is used up or it is aborted), and a poll has
\* returned only on succeeded with an artifact reference.
SucceededWithoutArtifactPollsOn ==
    /\ Observed(StatusResponse("succeeded", None)) =>
          \/ phase \in {"sleeping", "waiting"}
          \/ outcome \in {"timeout", "aborted"}
    /\ phase \in {"downloading", "upscaling"} =>
          Observed(StatusResponse("succeeded", Some("U")))

\* What holds: the same, for the pollers other than Wan and Midjourney.
SucceededWithoutArtifactPollsOnButWanMidjourney ==
    handler \notin {"wan", "midjourney"} => SucceededWithoutArtifactPollsOn

----------------------------------------------------------------------------
\* C20 as stated: a poller that has observed the HTTP status 503 has not
\* failed on it: it sleeps and polls again (unless its budget is used up or
\* it is aborted).
ServiceUnavailablePollsOn ==
    Observed(HttpError(503)) =>
        \/ phase \in {"sleeping", "waiting"}
        \/ outcome \in {"timeout", "aborted"}

\* What holds: the same, for the Kling poller alone; every other poller
\* fails on 503 as on any other HTTP error.
ServiceUnavailablePollsOnKlingOnly ==
    Observed(HttpError(503)) =>
        IF handler = "kling"
        THEN \/ phase \in {"sleeping", "waiting"}
             \/ outcome \in {"timeout", "aborted"}
        ELSE phase = "done" /\ outcome = "http"

----------------------------------------------------------------------------
\* C21: a poller that has observed an HTTP error other than 503, or a
\* request that was rejected by the transport, has failed with that error at
\* once: it is suspended at no sleep and no request, and nothing has been
\* fetched.
TransportFailureSurfaced ==
    /\ Observed(HttpError(500)) => phase = "done" /\ outcome = "http"
    /\ Observed(NetworkError) => phase = "done" /\ outcome = "network"
    /\ (Observed(HttpError(500)) \/ Observed(NetworkError)) =>
          /\ downloads = <<>>
          /\ ~ENABLED (SleepDone \/ StartPoll)

\* The Kling poller observed 500 on its third status request, after it had
\* retried on 503.
TransportFailureSurfacedWitness ==
    /\ handler = "kling"
    /\ Observed(HttpError(500))
    /\ statusRequests = 3
    /\ sleeps = 2
    /\ outcome = "http"

----------------------------------------------------------------------------
\* The pollers with a wall-clock budget.
Timed == Handlers \ {"speech"}

\* The poller has observed a response it does not poll on from.
TerminalObserved ==
    lastResponse.kind # "none" /\ Verdict(handler, lastResponse) # "again"

\* A wall-clock poller issues a status request only while the time elapsed
\* is within the budget, and a sleep that ends past the budget, without
\* cancellation, ends in the timeout.
WithinBudgetStep ==
    handler \in Timed =>
       /\ (statusRequests' # statusRequests => elapsed' <= MAX_POLL_TIME)
       /\ ((phase = "sleeping" /\ phase' # "sleeping" /\ ~aborted
               /\ elapsed' > MAX_POLL_TIME) => outcome' = "timeout")

NoRequestPastBudget == [][WithinBudgetStep]_allvars

\* A wall-clock poll that is not cancelled and never observes a terminal
\* response or a transport failure ends in the timeout.
NeverTerminalTimesOut ==
    handler \in Timed => <>(aborted \/ TerminalObserved \/ outcome = "timeout")

\* C22: in the wall-clock pollers no status request is issued once the time
\* elapsed exceeds MAX_POLL_TIME, the poll failing with the timeout instead,
\* and a poll whose task never becomes terminal ends in the timeout.
WallClockBudget == NoRequestPastBudget /\ NeverTerminalTimesOut

\* The Flux poller timed out after the most status requests the budget
\* allows, all of them answered at once with a non-terminal status.
WallClockBudgetWitness ==
    /\ handler = "flux"
    /\ outcome = "timeout"
    /\ ~aborted
    /\ ~TerminalObserved
    /\ statusRequests = MAX_POLL_TIME \div POLL_INTERVAL + 1
    /\ elapsed = MAX_POLL_TIME + POLL_INTERVAL

----------------------------------------------------------------------------
\* The text msg contains the piece tok.
Contains(msg, tok) == \E i \in 1..Len(msg) : msg[i] = tok

\* C23: when the status endpoint has reported `failed`, the call has failed
\* with a message that contains the task identifier.
FailedNamesTheTask ==
    Observed(StatusResponse("failed", None)) =>
        /\ phase = "done"
        /\ Contains(message, TaskId)

\* What the code does: only the speech model's message names the task.
FailedNamesTheTaskInSpeech ==
    Observed(StatusResponse("failed", None)) =>
        /\ phase = "done"
        /\ message # <<>>
        /\ Contains(message, TaskId) <=> handler = "speech"

----------------------------------------------------------------------------
\* The failure kind a caller reads off the raised condition.
KindOf(msg) ==
    IF msg = <<>> THEN "none"
    ELSE CASE Head(msg) \in {"Request aborted", "Task polling aborted", "AbortError"}
                -> "cancellation"
           [] Head(msg) \in {"TTS task timed out after ", "Task polling timed out"}
                -> "timeout"
           [] Head(msg) \in {"TTS task failed: ", "Task failed with status: ",
                             "Task failed: ", "API error: "}
                -> "upstream"
           [] Head(msg) \in {"HTTP error! status: ", "APICallError", "fetch failed"}
                -> "transport"
           [] OTHER -> "other"

\* The poll returned to its caller (which may still fail, for want of an
\* artifact or in the download).
PollReturned ==
    \/ phase \in {"downloading", "upscaling"}
    \/ phase = "done" /\ outcome \in {"ok", "download-failed", "no-artifact"}

\* What the poller made of the last response ("none" before the first).
LastVerdict ==
    IF lastResponse.kind = "none" THEN "none" ELSE Verdict(handler, lastResponse)

\* The poll loop has used up its attempts or its time.
BudgetExhausted ==
    IF handler = "speech" THEN attempt = maxAttempts
    ELSE elapsed > MAX_POLL_TIME

\* C24: a poll that is over has either returned or failed with exactly one
\* of cancellation, timeout, upstream failure and transport failure, and the
\* raised condition tells which: cancellation only when the signal was
\* triggered, timeout only when the budget is used up and no failure was
\* reported, upstream failure exactly when the upstream reported one, and
\* transport failure exactly when a request failed.
OneFailureKind ==
    PollOver /\ ~PollReturned =>
        /\ phase = "done"
        /\ KindOf(message) \in {"cancellation", "timeout", "upstream", "transport"}
        /\ KindOf(message) = "cancellation" =>
              aborted /\ LastVerdict \in {"none", "again", "aborted"}
        /\ KindOf(message) = "timeout" =>
              BudgetExhausted /\ LastVerdict \in {"none", "again"}
        /\ KindOf(message) = "upstream" <=> LastVerdict \in {"failed", "api"}
        /\ KindOf(message) = "transport" <=> LastVerdict \in {"http", "network"}

\* The speech poller has used up its three attempts on a task that stayed
\* pending and reports the timeout.
OneFailureKindWitness ==
    /\ handler = "speech"
    /\ phase = "done"
    /\ Observed(StatusResponse("pending", None))
    /\ attempt = MaxAttempts
    /\ ~aborted
    /\ KindOf(message) = "timeout"

----------------------------------------------------------------------------
\* C25: the artifact fetcher of the speech model issues one request for the
\* artifact URL and the call ends with what that request settles to: the
\* raw bytes of an OK response, or, for a non-OK response, a failure whose
\* message holds the response's status code and reason text; nothing is
\* requested again.
FetcherContract ==
    /\ handler = "speech" /\ phase = "downloading" =>
          downloads = <<Get(lastResponse.artifact)>>
    /\ handler = "speech" /\ lastDownload.kind # "none" =>
          /\ phase = "done"
          /\ downloads = <<Get(lastResponse.artifact)>>
          /\ ~ENABLED PollNext
          /\ lastDownload.kind = "ok" =>
                /\ outcome = "ok"
                /\ result = Some(lastDownload.body)
                /\ message = <<>>
          /\ lastDownload.kind = "http" =>
                /\ outcome = "download-failed"
                /\ result = None
                /\ Contains(message, ToString(lastDownload.status))
                /\ Contains(message, lastDownload.statusText)

\* The audio URL was answered with 404 Not Found and the call failed.
FetcherContractWitness ==
    /\ handler = "speech"
    /\ lastDownload = DownloadResponse("http", 404, "Not Found", "<html>")
    /\ downloads = <<"U">>
    /\ message = <<"Failed to download audio: ", "404", " ", "Not Found">>

----------------------------------------------------------------------------
\* C26: every network call of an asynchronous call - the submission, each
\* status request and the artifact download - was given the call's abort
\* signal.
SignalThreadsThrough == \A c \in calls : c.signal

\* What the code does: the signal reaches the submission and every status
\* request of each handler, and the download of the speech model only.
SignalThreadsThroughButImageDownload ==
    /\ \A c \in calls : c.signal <=> (c.call # "download" \/ handler = "speech")
    /\ phase # "submitted" /\ statusRequests > 0 =>
          NetworkCall("status", TRUE) \in calls
    /\ downloads # <<>> =>
          NetworkCall("download", handler = "speech") \in calls

----------------------------------------------------------------------------
\* C27: no warning pushed while the request was constructed is dropped: a
\* stream's first event, and only its first, is stream-start, and it carries
\* all of them; the result of a non-streaming or asynchronous call that
\* returned has all of them in its warnings list; both in the order of the
\* pushes.
WarningsNeverDropped ==
    /\ enqueued # <<>> =>
          /\ enqueued[1].type = "stream-start"
          /\ enqueued[1].warnings = pushed
          /\ \A i \in 2..Len(enqueued) : enqueued[i].type # "stream-start"
    /\ ~IsNull(resultWarnings) => Get(resultWarnings) = pushed
    /\ cpc = "returned" =>
          IF callKind = "stream" THEN enqueued # <<>> ELSE ~IsNull(resultWarnings)
    /\ cpc \in {"request", "streaming", "returned"} /\ callKind # "image" =>
          /\ ~IsNull(options.topK) => Contains(pushed, Warning("topK", None))
          /\ \A i \in DOMAIN options.tools :
                options.tools[i].type = "provider" =>
                   Contains(pushed, Warning("provider tool: " \o options.tools[i].name, None))

\* A stream was asked for with topK and the provider tools p and q: its
\* stream-start carries the three warnings, and events have followed.
WarningsNeverDroppedWitness ==
    /\ callKind = "stream"
    /\ Len(enqueued) = 3
    /\ enqueued[1].warnings = <<Warning("topK", None),
                                Warning("provider tool: p", None),
                                Warning("provider tool: q", None)>>

----------------------------------------------------------------------------
\* The finish event of a flushed stream.
TheFinish == events[Len(events)]

\* The frames that carry a usage object.
UsageBearing == {i \in DOMAIN frames : frames[i].success /\ ~IsNull(frames[i].value.usage)}

\* C28: the usage of the finish event is the flat record of inputTokens,
\* outputTokens, totalTokens, reasoningTokens and cachedInputTokens, whose
\* values are the counters accumulated from the frames.
FinishUsageFlat ==
    pc = "done" =>
        /\ DOMAIN TheFinish.usage = {"inputTokens", "outputTokens", "totalTokens",
                                     "reasoningTokens", "cachedInputTokens"}
        /\ TheFinish.usage.inputTokens = usage.promptTokens
        /\ TheFinish.usage.outputTokens = usage.completionTokens
        /\ TheFinish.usage.totalTokens = usage.totalTokens
        /\ TheFinish.usage.reasoningTokens = usage.reasoningTokens
        /\ TheFinish.usage.cachedInputTokens = usage.cachedTokens

\* What the code does: the finish event carries the nested record that
\* doGenerate returns, which has no place for the total; for a stream with
\* one usage object the two are the same record.
FinishUsageNestedAsDoGenerate ==
    pc = "done" =>
        /\ DOMAIN TheFinish.usage = {"inputTokens", "outputTokens"}
        /\ DOMAIN TheFinish.usage = DOMAIN doGenerateUsage(None)
        /\ Cardinality(UsageBearing) = 1 =>
              TheFinish.usage =
                 doGenerateUsage(frames[CHOOSE i \in UsageBearing : TRUE].value.usage)

----------------------------------------------------------------------------
\* The frames whose first choice carries a finish_reason code.
CodeBearing ==
    {i \in DOMAIN frames :
        /\ frames[i].success
        /\ ~IsNull(FirstChoice(frames[i].value))
        /\ ~IsNull(Get(FirstChoice(frames[i].value)).finish_reason)}

\* The choice a non-streaming response with the code of frame i would have.
ChoiceOf(i) == Get(FirstChoice(frames[i].value))

\* C30: the finish event of a stream without parse failures carries the
\* finish reason that doGenerate returns for a response whose choice has the
\* code of the stream's last frame with a finish_reason, whatever the code.
SharedFinishVocabulary ==
    pc = "done" /\ ~SomeFrameFailed /\ CodeBearing # {} =>
        TheFinish.finishReason = doGenerateFinishReason(ChoiceOf(MaxOf(CodeBearing)))

\* A stream reported stop and then the legacy function_call code: its finish
\* event says tool-calls, as doGenerate does for function_call.
SharedFinishVocabularyWitness ==
    /\ pc = "done"
    /\ Len(frames) = 2
    /\ frames[1] = FinalFrame
    /\ CodeBearing = {1, 2}
    /\ ChoiceOf(2).finish_reason = Some("function_call")
    /\ TheFinish.finishReason = "tool-calls"

----------------------------------------------------------------------------
\* What a stream fed the frames fs has enqueued and holds when it runs
\* alone, flushed or not.
AloneStream(fs, flushed) ==
    LET alone == Replay(fs)
    IN [pc |-> IF flushed THEN "done" ELSE "streaming",
        frames |-> fs,
        st |-> alone.st,
        events |-> IF flushed
                   THEN alone.ev \o FlushOut(alone.st.isActiveReasoning,
                                             alone.st.isActiveText,
                                             alone.st.toolCalls,
                                             alone.st.finishReason, alone.st.usage)
                   ELSE alone.ev]

\* The state of a job that has had the inputs ins when it runs alone.
RECURSIVE AloneJob(_)
AloneJob(ins) ==
    IF ins = <<>> THEN NewJob
    ELSE pollForResultStep(AloneJob(SubSeq(ins, 1, Len(ins) - 1)), ins[Len(ins)])

----------------------------------------------------------------------------
\* The events that close a span or complete a tool call.
Closers == {"text-end", "reasoning-end", "tool-input-end", "tool-call"}

\* C32: while frames are processed no text-end, reasoning-end,
\* tool-input-end or tool-call event has been emitted and no position's
\* completion flag is set, so that text deltas follow an open reasoning span
\* without closing it; at flush the reasoning span is closed after every
\* text delta and every position opened during the stream gets its
\* tool-input-end and its tool-call.
NoCloseBeforeFlush ==
    /\ \A i \in DOMAIN toolCalls : ~toolCalls[i].hasFinished
    /\ pc = "streaming" => \A i \in DOMAIN events : events[i].type \notin Closers
    /\ pc = "done" =>
          /\ \A i \in IndicesOf("reasoning-end"), j \in IndicesOf("text-delta") : j < i
          /\ \A p \in DOMAIN toolCalls :
                /\ \E i \in IndicesOf("tool-input-end") : events[i].id = toolCalls[p].id
                /\ \E i \in IndicesOf("tool-call") :
                      events[i].toolCallId = toolCalls[p].id
          /\ CountOf("tool-call") = Cardinality(DOMAIN toolCalls)
          /\ CountOf("tool-input-end") = Cardinality(DOMAIN toolCalls)

\* A frame opened a reasoning span, a text span and a tool call, a second
\* frame added text, and the stream was flushed: the reasoning span was
\* closed only then, after the later text delta.
NoCloseBeforeFlushWitness ==
    /\ pc = "done"
    /\ Len(frames) = 2
    /\ frames[1] = MixedFrame
    /\ CountOf("text-delta") = 2
    /\ CountOf("reasoning-end") = 1
    /\ CountOf("tool-call") = 1
    /\ \E i \in IndicesOf("reasoning-start"), j \in IndicesOf("text-delta"),
          k \in IndicesOf("reasoning-end") : i < j /\ j < k

----------------------------------------------------------------------------
\* The frames that write the finish reason: those that failed to parse and
\* those whose first choice carries a finish_reason.
Deciding == {i \in DOMAIN frames : ~frames[i].success} \cup CodeBearing

\* The finish reason the last deciding frame gives.
LastDecided ==
    IF Deciding = {} THEN "unknown"
    ELSE IF ~frames[MaxOf(Deciding)].success THEN "error"
    ELSE MappedReason(Get(ChoiceOf(MaxOf(Deciding)).finish_reason))

\* C33: the finish reason is unknown while no frame failed to parse or
\* carried a finish_reason, and otherwise what the last such frame gives:
\* error for a parse failure, the mapped value for a finish_reason, also
\* after a parse failure; the finish event carries it.
FinishReasonLastWriteWins ==
    /\ finishReason = LastDecided
    /\ pc = "done" => TheFinish.finishReason = LastDecided

\* A frame failed to parse, a later frame carried `length`, and the stream
\* was flushed: the finish event says length.
FinishReasonLastWriteWinsWitness ==
    /\ pc = "done"
    /\ Len(frames) = 2
    /\ ~frames[1].success
    /\ CodeBearing = {2}
    /\ ChoiceOf(2).finish_reason = Some("length")
    /\ TheFinish.finishReason = "length"

----------------------------------------------------------------------------
\* The name a fragment carries ('' when it has none).
NameOf(f) == IF IsNull(f.function.name) THEN <<>> ELSE Get(f.function.name)

\* The identifiers carried by the fragments at position p after the first.
LaterIds(p) ==
    {Get(FragmentsAt(p)[i].id) :
        i \in {k \in 2..Len(FragmentsAt(p)) : ~IsNull(FragmentsAt(p)[k].id)}}

\* The events of the given type that carry the identifier of position p.
EventsOf(type, p) ==
    {i \in IndicesOf(type) :
        (IF type = "tool-call" THEN events[i].toolCallId ELSE events[i].id)
            = toolCalls[p].id}

\* C34: the identifier and the name of the tool call at a position are those
\* of the first fragment that arrived there (a generated identifier, the
\* empty name, when it had none), whatever later fragments carry; the
\* position's tool-input-start, its tool-input-deltas and, at flush, its
\* tool-input-end and tool-call carry that identifier, and the tool-call and
\* the tool-input-start that name.
ToolIdentityFixedByFirst ==
    \A p \in DOMAIN toolCalls :
        LET first == Head(FragmentsAt(p)) IN
        /\ toolCalls[p].function.name = NameOf(first)
        /\ IF IsNull(first.id)
           THEN toolCalls[p].id \notin LaterIds(p)
           ELSE toolCalls[p].id = Get(first.id)
        /\ Cardinality(EventsOf("tool-input-start", p)) = 1
        /\ \A i \in EventsOf("tool-input-start", p) : events[i].toolName = NameOf(first)
        /\ Cardinality(EventsOf("tool-input-delta", p))
              = Len(NonEmptyArgs(FragmentsAt(p)))
        /\ \A i \in IndicesOf("tool-input-start") \cup IndicesOf("tool-input-delta") :
              \E q \in DOMAIN toolCalls : events[i].id = toolCalls[q].id
        /\ pc = "done" =>
              /\ Cardinality(EventsOf("tool-input-end", p)) = 1
              /\ Cardinality(EventsOf("tool-call", p)) = 1
              /\ \A i \in EventsOf("tool-call", p) : events[i].toolName = NameOf(first)

\* The first fragment at position 0 had neither identifier nor name, a later
\* one carried call_X and a name: the tool call keeps the generated
\* identifier and the empty name, and has the arguments of both.
ToolIdentityFixedByFirstWitness ==
    /\ pc = "done"
    /\ Len(frames) = 2
    /\ DOMAIN toolCalls = {0}
    /\ IsNull(Head(FragmentsAt(0)).id)
    /\ LaterIds(0) = {"call_X"}
    /\ toolCalls[0].id = generateId(1)
    /\ \E i \in IndicesOf("tool-call") :
          /\ events[i].toolCallId = generateId(1)
          /\ events[i].toolName = <<>>
          /\ events[i].input = <<"a", "b">>

----------------------------------------------------------------------------
\* The frame a step has decoded.
Decoded == frames'[Len(frames')]

\* A parsed frame without choices, or whose choice at index 0 has no delta.
Quiet(f) ==
    /\ f.success
    /\ \/ f.value.choices = <<>>
       \/ IsNull(f.value.choices[1].delta)

\* The frame f with the choices after the first removed.
FirstOnly(f) ==
    IF f.success /\ Len(f.value.choices) > 1
    THEN Ok([f.value EXCEPT !.choices = <<f.value.choices[1]>>])
    ELSE f

QuietFrameStep ==
    Len(frames') = Len(frames) + 1 =>
        /\ Quiet(Decoded) =>
              /\ events' = events
                    \o (IF isFirstChunk
                        THEN <<[type |-> "response-metadata",
                                id |-> getResponseMetadata(Decoded.value).id,
                                modelId |-> getResponseMetadata(Decoded.value).modelId,
                                timestamp |-> getResponseMetadata(Decoded.value).timestamp]>>
                        ELSE <<>>)
              /\ ~isFirstChunk'
              /\ UNCHANGED <<isActiveReasoning, isActiveText, toolCalls, genCount>>
              /\ IF IsNull(Decoded.value.usage) THEN usage' = usage
                 ELSE /\ usage'.promptTokens = Get(Decoded.value.usage).prompt_tokens
                      /\ usage'.completionTokens = Get(Decoded.value.usage).completion_tokens
                      /\ usage'.totalTokens = Get(Decoded.value.usage).total_tokens
              /\ finishReason' =
                    IF Decoded.value.choices # <<>>
                          /\ ~IsNull(Decoded.value.choices[1].finish_reason)
                    THEN MappedReason(Get(Decoded.value.choices[1].finish_reason))
                    ELSE finishReason
        /\ LET st == transform(DecoderState, FirstOnly(Decoded))
           IN /\ events' = events \o st.out
              /\ finishReason' = st.finishReason
              /\ usage' = st.usage
              /\ toolCalls' = st.toolCalls
              /\ isActiveText' = st.isActiveText
              /\ isActiveReasoning' = st.isActiveReasoning

\* C35: a parsed frame that has no choices, or whose first choice has no
\* delta, enqueues nothing but the response-metadata it owes as the first
\* parsed frame, opens no span and no tool call, and still takes over the
\* frame's usage and its first choice's finish_reason; and a frame is
\* decoded as if it had its first choice only.
QuietFramesStillCount == [][QuietFrameStep]_allvars

\* The first frame had two choices, the first of them empty: it gave the
\* response-metadata only and left the finish reason alone.
QuietFramesStillCountWitness ==
    /\ frames = <<TwoChoiceFrame>>
    /\ pc = "streaming"
    /\ Len(events) = 2
    /\ events[2].type = "response-metadata"
    /\ finishReason = "unknown"
    /\ ~isFirstChunk /\ ~isActiveText

----------------------------------------------------------------------------
\* The events a step has enqueued.
Enqueued == SubSeq(events', Len(events) + 1, Len(events'))

\* The texts of the reasoning-delta events among es, in order.
ReasoningDeltas(es) ==
    LET rd == SelectSeq(es, LAMBDA e : e.type = "reasoning-delta")
    IN [i \in 1..Len(rd) |-> rd[i].delta]

HasType(es, type) == \E i \in DOMAIN es : es[i].type = type

PreferredFieldStep ==
    (/\ Len(frames') = Len(frames) + 1
     /\ Decoded.success
     /\ Decoded.value.choices # <<>>
     /\ ~IsNull(Decoded.value.choices[1].delta)) =>
        LET delta == Get(Decoded.value.choices[1].delta) IN
        /\ ~IsNull(delta.reasoning_content) =>
              IF Get(delta.reasoning_content) = <<>>
              THEN /\ ~HasType(Enqueued, "reasoning-start")
                   /\ ~HasType(Enqueued, "reasoning-delta")
                   /\ isActiveReasoning' = isActiveReasoning
              ELSE ReasoningDeltas(Enqueued) = <<Get(delta.reasoning_content)>>
        /\ IsNull(delta.reasoning_content) /\ Truthy(delta.reasoning) =>
              ReasoningDeltas(Enqueued) = <<Get(delta.reasoning)>>

\* C36: `reasoning` is consulted only when `reasoning_content` is absent or
\* null: a frame whose reasoning_content is the empty string enqueues no
\* reasoning-start and no reasoning-delta and opens no reasoning span,
\* whatever its `reasoning` holds; a non-empty reasoning_content is the
\* delta; `reasoning` is the delta when reasoning_content is null.
AlternateOnlyWhenAbsent == [][PreferredFieldStep]_allvars

\* The first frame had reasoning_content '' and reasoning 'Let': only the
\* response-metadata was enqueued and no reasoning span is open.
AlternateOnlyWhenAbsentWitness ==
    /\ frames = <<WithDelta([BaseDelta EXCEPT !.reasoning_content = Some(<<>>),
                                              !.reasoning = Some(<<"Let">>)])>>
    /\ Len(events) = 2
    /\ events[2].type = "response-metadata"
    /\ ~isActiveReasoning

----------------------------------------------------------------------------
\* No status request was issued and nothing was downloaded.
NothingRequested ==
    /\ statusRequests = 0
    /\ downloads = <<>>
    /\ \A c \in calls : c.call = "submit"

\* C31: the speech model's doGenerate goes by the status of the submission
\* response: pending starts the poller; completed with an audio URL issues
\* no status request and downloads that URL, once; failed fails the call
\* with no status request and no download; processing, and completed
\* without an audio URL, fail the call as an unexpected status, with no
\* status request and no download either.
SubmissionDispatch ==
    submission.kind = "ok" =>
        CASE submission.status = "pending" ->
                \/ statusRequests >= 1
                \/ /\ phase = "done" /\ outcome = "timeout" /\ maxAttempts = 0
                   /\ NothingRequested
          [] submission.status = "completed" /\ ~IsNull(submission.audio_url) ->
                /\ statusRequests = 0 /\ sleeps = 0
                /\ downloads = <<Get(submission.audio_url)>>
                /\ phase \in {"downloading", "done"}
                /\ phase = "done" =>
                      outcome \in {"ok", "download-failed"} /\ ~ENABLED DispatchNext
          [] submission.status = "failed" ->
                /\ phase = "done" /\ outcome = "generation-failed"
                /\ Head(message) = "TTS generation failed: "
                /\ NothingRequested
          [] OTHER ->
                /\ submission.status \in {"processing", "completed"}
                /\ phase = "done" /\ outcome = "unexpected"
                /\ message = <<"Unexpected TTS response status: ", submission.status>>
                /\ NothingRequested

\* The submission was answered `completed` with the audio URL: the audio was
\* downloaded from it without any status request.
SubmissionDispatchWitness ==
    /\ submission = SubmissionResponse("completed", Some("U"))
    /\ phase = "done" /\ outcome = "ok"
    /\ statusRequests = 0
    /\ downloads = <<"U">>
    /\ result = Some("bytes-of-U")

----------------------------------------------------------------------------
\* C37: under a status endpoint that answers 503 to every request, the Kling
\* poller terminates.  The 503 retries are not counted, but each one is
\* followed by one sleep of POLL_INTERVAL and then by the loop top, which
\* re-checks the cancellation signal and the wall-clock budget before the next
\* request; a poll that has seen nothing but 503 ends with the timed-out or
\* the aborted condition, never with an upstream failure.
OnlyUnavailable ==
    \/ lastResponse.kind = "none"
    \/ lastResponse = HttpError(503)
    \/ lastResponse = AbortError

UnavailableRetryStep ==
    handler = "kling" =>
       /\ (phase = "waiting" /\ phase' # "waiting" /\ lastResponse' = HttpError(503)) =>
              /\ phase' = "sleeping"
              /\ sleeps' = sleeps + 1
              /\ statusRequests' = statusRequests
              /\ outcome' = "none"
       /\ (phase = "sleeping" /\ phase' # "sleeping") =>
              /\ elapsed' = elapsed + POLL_INTERVAL
              /\ IF aborted
                 THEN phase' = "done" /\ outcome' = "aborted"
                 ELSE IF elapsed' > MAX_POLL_TIME
                 THEN phase' = "done" /\ outcome' = "timeout"
                 ELSE /\ phase' = "waiting"
                      /\ statusRequests' = statusRequests + 1

UnavailableNeverFails ==
    (handler = "kling" /\ OnlyUnavailable) =>
        outcome \in {"none", "timeout", "aborted"}

UnavailableStillTerminates ==
    /\ []UnavailableNeverFails
    /\ [][UnavailableRetryStep]_allvars
    /\ (handler = "kling" /\ []OnlyUnavailable) =>
           <>(phase = "done" /\ outcome \in {"timeout", "aborted"})

\* The Kling poller was answered 503 and nothing else for as long as the
\* budget lasts, slept after each answer, and then timed out.
UnavailableStillTerminatesWitness ==
    /\ handler = "kling"
    /\ lastResponse = HttpError(503)
    /\ phase = "done" /\ outcome = "timeout"
    /\ ~aborted
    /\ statusRequests = MAX_POLL_TIME \div POLL_INTERVAL + 1
    /\ sleeps = statusRequests
    /\ elapsed = sleeps * POLL_INTERVAL

----------------------------------------------------------------------------
\* C38: in the Midjourney handler downloadImages is called only when the
\* imagine task and every one of the Math.min(n || 1, 4) upscale tasks has
\* been polled to SUCCESS; when the imagine poll, or the submission or the
\* poll of any upscale, has failed, timed out or been aborted, processRequest
\* has thrown and downloadImages has not been called; and there are upscale
\* tasks only once the imagine poll has returned.
DownloadAttempted == imageUrls # <<>>

DownloadAfterEverySuccess ==
    /\ DownloadAttempted <=>
          \/ processRequest \in {"download", "returned"}
          \/ thrown = "download-failed"
    /\ DownloadAttempted =>
          /\ Fulfilled(initialResult)
          /\ DOMAIN upscalePromises = 1..numImages(requested)
          /\ \A i \in DOMAIN upscalePromises : Fulfilled(upscalePromises[i])
          /\ Len(imageUrls) = numImages(requested)
    /\ (\/ Rejected(initialResult)
        \/ \E i \in DOMAIN upscalePromises : Rejected(upscalePromises[i])) =>
          /\ processRequest = "thrown"
          /\ ~DownloadAttempted
    /\ upscalePromises # <<>> => Fulfilled(initialResult)

\* Two images were asked for: both upscale tasks were polled to SUCCESS, one
\* of them at its second status request, and the two images were downloaded.
DownloadAfterEverySuccessWitness ==
    /\ requested = Some(2)
    /\ processRequest = "returned"
    /\ imageUrls = <<"U", "U">>
    /\ upscalePromises[1].statusRequests = 2
    /\ upscalePromises[2].statusRequests = 1

----------------------------------------------------------------------------
\* C39: the parallel upscale pollers of Midjourney do not stop one another.
\* Once processRequest has thrown, an upscale task that is still under way
\* goes on as pollTask goes on by itself: its submission starts its poll, its
\* sleep leads to the loop top and from there to the next status request, and
\* it ends only on its own answer, on its own timeout, measured from its own
\* start, or on the abort of the caller's signal.
UnderWay(t) == t.phase \in {"submitting", "waiting", "sleeping"}

\* How a poll ends by itself, as the statement has it: a terminal status,
\* the timeout, the cancellation.
EndsOfPoll == {"SUCCESS", "failed", "timeout", "aborted"}

\* How a poll ends by itself: also when its own request fails.
EndsOfPollOrRequest == EndsOfPoll \cup {"http", "network"}

RemainingStep(ends) ==
    \A i \in DOMAIN upscalePromises :
       LET t == upscalePromises[i]
           u == upscalePromises'[i]
       IN (processRequest = "thrown" /\ UnderWay(t) /\ u # t) =>
             /\ t.phase = "submitting" =>
                   \/ u.phase = "waiting" /\ u.statusRequests = 1 /\ u.elapsed = 0
                   \/ u.phase = "done" /\ u.outcome = "rejected"
                   \/ u.phase = "done" /\ u.outcome = "aborted" /\ abortSignal
             /\ t.phase = "sleeping" =>
                   /\ u.elapsed = t.elapsed + POLL_INTERVAL
                   /\ IF abortSignal THEN u.phase = "done" /\ u.outcome = "aborted"
                      ELSE IF u.elapsed > MAX_POLL_TIME
                      THEN u.phase = "done" /\ u.outcome = "timeout"
                      ELSE /\ u.phase = "waiting"
                           /\ u.statusRequests = t.statusRequests + 1
             /\ t.phase = "waiting" => u.phase \in {"sleeping", "done"}
             /\ (t.phase # "submitting" /\ u.phase = "done") =>
                   /\ u.outcome \in ends
                   /\ u.outcome = "aborted" => abortSignal
                   /\ u.outcome = "timeout" => u.elapsed > MAX_POLL_TIME

RemainingStepAsStated == RemainingStep(EndsOfPoll)

RemainingStepOwnEnds == RemainingStep(EndsOfPollOrRequest)

NotStopped ==
    \A i \in DOMAIN upscalePromises :
       LET t == upscalePromises[i]
       IN /\ t.phase = "submitting" =>
                ENABLED (\E resp \in SubmitResponses(abortSignal) :
                            UpscaleSubmitted(i, resp))
          /\ t.phase = "sleeping" => ENABLED UpscaleSlept(i)
          /\ t.phase = "waiting" =>
                ENABLED (\E r \in Responses("midjourney", abortSignal),
                            latency \in Latencies : UpscaleSettled(i, r, latency))

\* As stated: a remaining poller ends only at a terminal status, at its
\* timeout or at the cancellation.
PollersEndAsStated == []NotStopped /\ [][RemainingStepAsStated]_allvars

\* What holds: a remaining poller also ends when its own status request
\* fails.
PollersDoNotStopOneAnother == []NotStopped /\ [][RemainingStepOwnEnds]_allvars

\* Of two upscale pollers one was answered FAILED, so that processRequest has
\* thrown; the caller has not aborted; the other sleeps between two status
\* requests and will go on to its second.
PollersDoNotStopOneAnotherWitness ==
    /\ processRequest = "thrown" /\ thrown = "failed"
    /\ ~abortSignal
    /\ \E i, j \in DOMAIN upscalePromises :
          /\ upscalePromises[j].outcome = "failed"
          /\ upscalePromises[i].phase = "sleeping"
          /\ upscalePromises[i].statusRequests = 1
          /\ upscalePromises[i].elapsed + POLL_INTERVAL <= MAX_POLL_TIME

====
